---- MODULE Spec2Model ----
(***************************************************************************)
(* Build-time generators of the SDS component library.                     *)
(*                                                                         *)
(*   - the stylesheet aggregator (build-css script, src/unnamed/part_001)  *)
(*   - the flat rule generator    (src/unnamed/part_003)                   *)
(*   - the rule generator         (src/scripts/generate-cursorrules.js)    *)
(*                                                                         *)
(* Text is a sequence of pieces.  A piece is a string that the scanners of *)
(* the scripts never look inside: one delimiter character, one white space *)
(* character, a keyword, a fragment of an identifier, or a literal of a    *)
(* template the scripts emit.                                              *)
(***************************************************************************)
EXTENDS Integers, Sequences, FiniteSets, TLC

\* The value of a path that does not exist (existsSync is false for it): a
\* one-piece marker that no text holds.
NoFile == <<"<absent>">>

Range(s) == {s[i] : i \in 1..Len(s)}

(***************************************************************************)
(* Stylesheet aggregator, src/unnamed/part_001                             *)
(***************************************************************************)
VARIABLES
  srcCss,     \* src/<file> for the foundational files: a text, or NoFile
  distCss,    \* dist/index.css: a text, or NoFile
  preDist,    \* dist/index.css as it was before the last aggregator run
  cssRuns,    \* aggregator runs since the bundler last ran
  cssStatus   \* "idle", or how the last aggregator run ended: "ok" | "threw"

cssVars == <<srcCss, distCss, preDist, cssRuns, cssStatus>>

cssFiles ==
  <<"reset.css", "theme.css", "index.css", "icons.css", "responsive.css">>

\* Contents a foundational file may have (an existing file may be empty).
CssTexts == {<<>>, <<".a{}">>, <<".b{}", ".a{}">>}

\* What the bundler leaves at dist/index.css: nothing when no component
\* imports a stylesheet, else the bundled component styles.
BundledCss == {NoFile, <<>>, <<".btn{}">>, <<".btn{}", ".tag{}">>}

\* Bound on consecutive aggregator runs between two bundler runs.
MaxCssRuns == 2

\* The value an exception gives to the expression it is raised in: a
\* one-piece marker that no text holds.
Threw == <<"<threw>">>

\* existsSync that answers true for every path.
existsSyncAlways(content) == TRUE

existsSync(content) == content # NoFile

\* The value of a path that exists and cannot be read as a file (a directory
\* of that name, a file without read permission).
Unreadable == <<"<unreadable>">>

\* readFileSync(path, 'utf-8'): the text, or an exception for a path that is
\* missing or cannot be read.
readFileSync(content) ==
  IF content = NoFile \/ content = Unreadable THEN Threw ELSE content

FileTag(file) == "/* " \o file \o " */\n"

ComponentTag == "/* Component styles */\n"

\* The loop over cssFiles from index i on, `combined` being the buffer so far.
RECURSIVE CombineFoundational(_, _, _)
CombineFoundational(fs, i, combined) ==
  IF combined = Threw \/ i > Len(cssFiles) THEN combined
  ELSE LET file == cssFiles[i]
           text == readFileSync(fs[file])
       IN  CombineFoundational(fs, i + 1,
             IF existsSync(fs[file])
             THEN IF text = Threw THEN Threw
                  ELSE combined \o <<FileTag(file)>> \o text \o <<"\n\n">>
             ELSE combined)

\* The component section placed before the foundational buffer.
AppendComponentFirst(combined, dist) ==
  LET componentCss == readFileSync(dist)
  IN  IF combined = Threw THEN Threw
      ELSE IF existsSync(dist)
           THEN IF componentCss = Threw THEN Threw
                ELSE <<ComponentTag>> \o componentCss \o combined
           ELSE combined

\* The tsupCss block: the bundled stylesheet read back and appended.
AppendComponent(combined, dist) ==
  LET componentCss == readFileSync(dist)
  IN  IF combined = Threw THEN Threw
      ELSE IF existsSync(dist)
           THEN IF componentCss = Threw THEN Threw
                ELSE combined \o <<ComponentTag>> \o componentCss
           ELSE combined

\* The buffer handed to writeFileSync, or Threw.
CombinedCss(fs, dist) == AppendComponent(CombineFoundational(fs, 1, <<>>), dist)

CssInit ==
  /\ srcCss \in [Range(cssFiles) -> CssTexts \cup {NoFile}]
  /\ distCss \in BundledCss
  /\ preDist = NoFile
  /\ cssRuns = 0
  /\ cssStatus = "idle"

\* One run of the aggregator script, top to bottom.
BuildCss ==
  /\ cssRuns < MaxCssRuns
  /\ LET combined == CombinedCss(srcCss, distCss)
     IN  /\ cssStatus' = IF combined = Threw THEN "threw" ELSE "ok"
         /\ distCss' = IF combined = Threw THEN distCss ELSE combined
  /\ preDist' = distCss
  /\ cssRuns' = cssRuns + 1
  /\ UNCHANGED srcCss

\* The external bundler (tsup, clean: true) rebuilds dist/.
Bundle ==
  /\ cssRuns > 0
  /\ \E css \in BundledCss : distCss' = css
  /\ preDist' = NoFile
  /\ cssRuns' = 0
  /\ cssStatus' = "idle"
  /\ UNCHANGED srcCss

\* The aggregator's variables in the specifications of the other scripts.
CssIdle ==
  /\ srcCss = [f \in Range(cssFiles) |-> NoFile]
  /\ distCss = NoFile
  /\ preDist = NoFile
  /\ cssRuns = 0
  /\ cssStatus = "idle"

(***************************************************************************)
(* Source text and the regular expressions of the scripts                  *)
(*                                                                         *)
(* A source text is a sequence of pieces: every delimiter and every white  *)
(* space character is a piece of its own, and so is every keyword or       *)
(* identifier fragment the regular expressions name ("interface", "type",  *)
(* "Props", ...).  Any other piece is a run of word characters (\w+) that  *)
(* holds none of those words, so a match begins and ends between pieces.   *)
(***************************************************************************)

\* \s
SpacePieces == {" ", "\n"}

\* The one-character pieces that are neither \w nor \s.
PunctPieces ==
  {"{", "}", "(", ")", "<", ">", ";", ":", "?", "=", "|", "&", ",", ".",
   "\"", "'", "/", "*"}

NonWordPieces == SpacePieces \cup PunctPieces

QuotePieces == {"\"", "'"}

\* The word pieces that begin with an upper-case letter ([A-Z]).
UpperPieces == {"Button", "Alert", "Props", "Base", "Theme", "Event", "Group"}

\* The first position of lo..hi whose piece is in S if inS, is not in S
\* otherwise (hi + 1 if there is none), found by halving the interval.
RECURSIVE First(_, _, _, _, _)
First(t, lo, hi, S, inS) ==
  IF lo > hi THEN lo
  ELSE IF lo = hi THEN (IF (t[lo] \in S) = inS THEN lo ELSE lo + 1)
  ELSE LET mid  == (lo + hi) \div 2
           left == First(t, lo, mid, S, inS)
       IN  IF left <= mid THEN left ELSE First(t, mid + 1, hi, S, inS)

\* The first position from i on whose piece is not in S (Len(t) + 1 if none):
\* where a greedy S* begun at i stops.
SkipIn(t, i, S) == First(t, i, Len(t), S, FALSE)

\* The first position from i on whose piece is in S: where [^S]* stops.
SkipNotIn(t, i, S) == First(t, i, Len(t), S, TRUE)

\* Where \w* begun at i stops.
SkipWord(t, i) == SkipNotIn(t, i, NonWordPieces)

\* String.prototype.trim
RECURSIVE TrimLeft(_)
TrimLeft(t) ==
  IF t # <<>> /\ t[1] \in SpacePieces THEN TrimLeft(Tail(t)) ELSE t

RECURSIVE TrimRight(_)
TrimRight(t) ==
  IF t # <<>> /\ t[Len(t)] \in SpacePieces
  THEN TrimRight(SubSeq(t, 1, Len(t) - 1)) ELSE t

Trim(t) == TrimRight(TrimLeft(t))

\* Array.prototype.join of a sequence of texts.
RECURSIVE JoinRange(_, _, _, _)
JoinRange(texts, lo, hi, sep) ==
  IF lo > hi THEN <<>>
  ELSE IF lo = hi THEN texts[lo]
  ELSE LET mid == (lo + hi) \div 2
       IN  JoinRange(texts, lo, mid, sep) \o <<sep>>
             \o JoinRange(texts, mid + 1, hi, sep)

Join(texts, sep) ==
  CHOOSE joined \in {JoinRange(ts, 1, Len(ts), sep) : ts \in {texts}} : TRUE

\* The concatenation of a sequence of texts.
RECURSIVE Flatten(_)
Flatten(texts) ==
  IF texts = <<>> THEN <<>> ELSE texts[1] \o Flatten(Tail(texts))

(***************************************************************************)
(* Flat rule generator, src/unnamed/part_003: extractProps                 *)
(***************************************************************************)

\* interfaceRegex =
\*   /(?:interface|type)\s+\w*Props\w*\s*(?:extends\s+[^{]+)?\{([^}]*)\}/gs
\* matches at position i.  Whatever way it matches, the "{" is the first one
\* from i on and the "}" the first one after it.
InterfaceMatchAt(t, i) ==
  /\ i <= Len(t)
  /\ t[i] \in {"interface", "type"}
  /\ LET b    == SkipIn(t, i + 1, SpacePieces)
         cmax == SkipWord(t, b)
         q    == SkipNotIn(t, i, {"{"})
         r    == SkipNotIn(t, q + 1, {"}"})
     IN  /\ b > i + 1
         /\ q <= Len(t)
         /\ r <= Len(t)
         /\ \E e \in (b + 1)..cmax :
              /\ "Props" \in {t[k] : k \in b..(e - 1)}
              /\ \E s \in e..SkipIn(t, e, SpacePieces) :
                   \/ s = q
                   \/ /\ t[s] = "extends"
                      /\ t[s + 1] \in SpacePieces
                      /\ q >= s + 3

\* match[1] of every match of interfaceRegex from position `from` on, in
\* the order exec finds them (each search resumes after the last match).  A
\* match begins at a piece "interface" or "type", so the search goes from one
\* such piece to the next.
RECURSIVE InterfaceBodies(_, _)
InterfaceBodies(t, from) ==
  LET i == SkipNotIn(t, from, {"interface", "type"})
  IN  IF i > Len(t) THEN <<>>
      ELSE IF InterfaceMatchAt(t, i)
           THEN LET q == SkipNotIn(t, i, {"{"})
                    r == SkipNotIn(t, q + 1, {"}"})
                IN  <<SubSeq(t, q + 1, r - 1)>> \o InterfaceBodies(t, r + 1)
           ELSE InterfaceBodies(t, i + 1)

\* propRegex = /(\w+)(\?)?:\s*([^;\n]+)/g tried at position i: whether it
\* matches, the prop it yields and where the next search begins.
PropMatchAt(t, i) ==
  LET w     == SkipWord(t, i)
      opt   == w <= Len(t) /\ t[w] = "?"
      c     == IF opt THEN w + 1 ELSE w
      smax  == SkipIn(t, c + 1, SpacePieces)
      \* \s* is greedy and gives back until [^;\n]+ finds a first character
      starts == {s \in (c + 1)..smax : s <= Len(t) /\ t[s] \notin {";", "\n"}}
      s     == CHOOSE x \in starts : \A y \in starts : y <= x
      te    == SkipNotIn(t, s, {";", "\n"})
  IN  IF w > i /\ c <= Len(t) /\ t[c] = ":" /\ starts # {}
      THEN [ok |-> TRUE,
            prop |-> [name |-> SubSeq(t, i, w - 1),
                      optional |-> opt,
                      type |-> Trim(SubSeq(t, s, te - 1))],
            next |-> te]
      ELSE [ok |-> FALSE]

\* The props pushed for one interface body.  A match begins at a word
\* piece, so the search goes from one word piece to the next.
RECURSIVE BodyProps(_, _)
\* The props pushed from word piece i on, m being the match tried at i.
PropsAt(body, i, m) ==
  IF i > Len(body) THEN <<>>
  ELSE IF m.ok THEN <<m.prop>> \o BodyProps(body, m.next)
  ELSE BodyProps(body, i + 1)

BodyProps(body, from) ==
  LET i == SkipIn(body, from, NonWordPieces)
  IN  PropsAt(body, i, PropMatchAt(body, i))

RECURSIVE PropsOfBodies(_)
PropsOfBodies(bodies) ==
  IF bodies = <<>> THEN <<>>
  ELSE BodyProps(bodies[1], 1) \o PropsOfBodies(Tail(bodies))

\* ["'][^"']+["'] at position p.
LiteralAt(t, p) ==
  LET e == SkipNotIn(t, p + 1, QuotePieces)
  IN  IF p <= Len(t) /\ t[p] \in QuotePieces /\ e > p + 1 /\ e <= Len(t)
      THEN [ok |-> TRUE, value |-> SubSeq(t, p + 1, e - 1), next |-> e + 1]
      ELSE [ok |-> FALSE]

\* The longest chain literal | literal | ... that begins at p: its values
\* (quotes removed) and the position after its last literal.
RECURSIVE UnionFrom(_, _)
UnionFrom(t, p) ==
  LET l == LiteralAt(t, p)
  IN  IF ~l.ok THEN [values |-> <<>>, next |-> p]
      ELSE LET bar  == SkipIn(t, l.next, SpacePieces)
               rest == UnionFrom(t, SkipIn(t, bar + 1, SpacePieces))
           IN  IF bar <= Len(t) /\ t[bar] = "|" /\ rest.values # <<>>
               THEN [values |-> <<l.value>> \o rest.values, next |-> rest.next]
               ELSE [values |-> <<l.value>>, next |-> l.next]

\* literalUnionRegex =
\*   /(\w+)\??\s*:\s*((?:["'][^"']+["']\s*\|\s*)+["'][^"']+["'])/g
\* tried at position i.
\* The match of a name that ends before w, with colon c and union u.
UnionMatchOf(t, i, w, c, u) ==
  IF w > i /\ c <= Len(t) /\ t[c] = ":" /\ Len(u.values) >= 2
  THEN [ok |-> TRUE, name |-> SubSeq(t, i, w - 1), values |-> u.values,
        next |-> u.next]
  ELSE [ok |-> FALSE]

UnionMatchAt(t, i) ==
  LET w  == SkipWord(t, i)
      q  == IF w <= Len(t) /\ t[w] = "?" THEN w + 1 ELSE w
      c  == SkipIn(t, q, SpacePieces)
  IN  UnionMatchOf(t, i, w, c, UnionFrom(t, SkipIn(t, c + 1, SpacePieces)))

\* The assignment that leaves a key written before as it is.
PutVariantKeepFirst(variants, name, values) ==
  IF \E k \in 1..Len(variants) : variants[k].name = name
  THEN variants
  ELSE Append(variants, [name |-> name, values |-> values])

\* variants[name] = values on an object whose keys keep insertion order
\* (identifier keys; a key written again keeps its place).
PutVariant(variants, name, values) ==
  IF \E k \in 1..Len(variants) : variants[k].name = name
  THEN [k \in 1..Len(variants) |->
          IF variants[k].name = name
          THEN [name |-> name, values |-> values] ELSE variants[k]]
  ELSE Append(variants, [name |-> name, values |-> values])

\* The matches of literalUnionRegex on the whole file from position `from`
\* on, in order.  A match holds a ":", and begins at the first piece of the
\* word before it or at a later piece of that word, so the search goes from
\* one ":" to the next.
RECURSIVE UnionMatches(_, _)
\* Match m and the matches after it.
UnionsFrom(t, m) == <<m>> \o UnionMatches(t, m.next)

\* The matches from the colon c on, starts being the positions before c at
\* which the expression matches.
UnionsAt(t, c, starts) ==
  IF c > Len(t) THEN <<>>
  ELSE IF starts = {} THEN UnionMatches(t, c + 1)
  ELSE UnionsFrom(t, UnionMatchAt(t, CHOOSE x \in starts :
                                        \A y \in starts : x <= y))

UnionMatchesTo(t, from, c) ==
  UnionsAt(t, c, {i \in from..(c - 1) : UnionMatchAt(t, i).ok})

UnionMatches(t, from) == UnionMatchesTo(t, from, SkipNotIn(t, from, {":"}))

\* The while loop over literalUnionRegex: variants after the matches from
\* index k on.
RECURSIVE CollectVariants(_, _, _)
CollectVariants(matches, k, variants) ==
  IF k > Len(matches) THEN variants
  ELSE CollectVariants(matches, k + 1,
                       PutVariant(variants, matches[k].name,
                                  matches[k].values))

\* extractProps(filePath), given the content of the file.
extractProps(content) ==
  [props |-> PropsOfBodies(InterfaceBodies(content, 1)),
   variants |-> CollectVariants(UnionMatches(content, 1), 1, <<>>)]

packageName == "@kzatsepin-xla/components"

\* The lines of the Props section for the props from index k on.
RECURSIVE PropLines(_, _)
PropLines(props, k) ==
  IF k > Len(props) THEN <<>>
  ELSE LET p   == props[k]
           req == IF p.optional THEN "optional" ELSE "required"
       IN  <<"  - ">> \o p.name \o (IF p.optional THEN <<"?">> ELSE <<>>)
             \o <<": ">> \o p.type \o <<" (", req, ")\n">>
             \o PropLines(props, k + 1)

\* values.map(v => `"${v}"`)
RECURSIVE Quoted(_)
Quoted(values) ==
  IF values = <<>> THEN <<>>
  ELSE <<(<<"\"">> \o values[1] \o <<"\"">>)>> \o Quoted(Tail(values))

\* The lines of the Variants section for the entries from index k on.
RECURSIVE VariantLines(_, _)
VariantLines(variants, k) ==
  IF k > Len(variants) THEN <<>>
  ELSE <<"  - ">> \o variants[k].name \o <<": ">>
         \o Join(Quoted(variants[k].values), " | ") \o <<"\n">>
         \o VariantLines(variants, k + 1)

\* The doc built for component `name` from the props and variants e.
DocOf(name, e) ==
  <<name, "\n">>
    \o <<"Import: import { ", name, " } from '", packageName,
         "/ui/primitives/", name, "'\n">>
    \o (IF Len(e.props) > 0
        THEN <<"Props:\n">> \o PropLines(e.props, 1) ELSE <<>>)
    \o (IF Len(e.variants) > 0
        THEN <<"Variants:\n">> \o VariantLines(e.variants, 1) ELSE <<>>)

\* The body of the componentDocs callback after findComponentFile: the doc
\* of component `name` whose entry file holds `content`.
ComponentDoc(name, content) == DocOf(name, extractProps(content))

(***************************************************************************)
(* The primitives directory, src/ui/primitives                             *)
(*                                                                         *)
(* A tree maps the names of the entries of the directory to entries.  An   *)
(* entry is a plain file or a component folder; a folder maps the names of *)
(* its files to their contents.  A file name is a sequence of pieces whose *)
(* last piece is its extension.                                            *)
(***************************************************************************)

IndexTsx == <<"index", ".tsx">>

\* `${name}.tsx`
NamedTsx(name) == <<name, ".tsx">>

\* The entry names in the order of Array.prototype.sort (UTF-16 code units:
\* upper-case letters before lower-case ones).
NameOrder == <<"Alert", "Button", "index.ts">>

Rank(name) == CHOOSE k \in 1..Len(NameOrder) : NameOrder[k] = name

RECURSIVE InsertSorted(_, _)
InsertSorted(sorted, name) ==
  IF sorted = <<>> THEN <<name>>
  ELSE IF Rank(name) <= Rank(sorted[1]) THEN <<name>> \o sorted
  ELSE <<sorted[1]>> \o InsertSorted(Tail(sorted), name)

\* names.sort()
RECURSIVE Sort(_)
Sort(names) ==
  IF names = <<>> THEN <<>>
  ELSE InsertSorted(Sort(Tail(names)), names[1])

\* The orders in which readdirSync may list a set of names.
RECURSIVE Orders(_)
Orders(S) ==
  IF S = {} THEN {<<>>}
  ELSE UNION {{<<x>> \o o : o \in Orders(S \ {x})} : x \in S}

(***************************************************************************)
(* Flat rule generator, src/unnamed/part_003: the script                   *)
(***************************************************************************)

\* The components array without the filter on index.tsx.
FlatComponentsAll(tree, order) ==
  LET IsDir(n) == tree[n].isDirectory
  IN  SelectSeq(order, IsDir)

\* The components array: the folders with an index.tsx, in listing order.
FlatComponents(tree, order) ==
  LET IsComponentDir(n) ==
        tree[n].isDirectory /\ IndexTsx \in DOMAIN tree[n].files
  IN  SelectSeq(order, IsComponentDir)

\* findComponentFile with the candidates in the other order.
findComponentFileIndexFirst(files, name) ==
  IF IndexTsx \in DOMAIN files THEN IndexTsx
  ELSE IF NamedTsx(name) \in DOMAIN files THEN NamedTsx(name)
  ELSE <<>>

\* findComponentFile(componentDir, name): the file found, or <<>> for null.
findComponentFile(files, name) ==
  IF NamedTsx(name) \in DOMAIN files THEN NamedTsx(name)
  ELSE IF IndexTsx \in DOMAIN files THEN IndexTsx
  ELSE <<>>

\* components.map(...).filter(Boolean) from index k on: the docs, unless a
\* read threw.
RECURSIVE FlatDocsFrom(_, _, _)
FlatDocsFrom(tree, components, k) ==
  IF k > Len(components) THEN [threw |-> FALSE, docs |-> <<>>]
  ELSE LET name     == components[k]
           files    == tree[name].files
           filePath == findComponentFile(files, name)
           content  == readFileSync(files[filePath])
           rest     == FlatDocsFrom(tree, components, k + 1)
       IN  IF filePath = <<>> THEN rest
           ELSE IF content = Threw \/ rest.threw
                THEN [threw |-> TRUE, docs |-> <<>>]
                ELSE [threw |-> FALSE,
                      docs |-> <<ComponentDoc(name, content)>> \o rest.docs]

\* The cursorrules template literal.
FlatTemplate(count, docs) ==
  <<"SDS - Simple Design System\n\nThis project uses the SDS component library (",
    packageName,
    ").\nAlways import components from this package - never create custom versions of existing components.\n\nImport pattern:\n\n  // Individual component (tree-shakeable):\n  import { Button } from '",
    packageName,
    "/ui/primitives/Button'\n\n  // Or from root (all components):\n  import { Button, Input, Dialog } from '",
    packageName,
    "'\n\nDon't forget styles - add this import once in your root layout:\n\n  import '",
    packageName,
    "/styles.css'\n\nAvailable Components (",
    ToString(count),
    " primitives):\n\n">>
    \o Join(docs, "\n")
    \o <<"\n\nGeneral Rules:\n- Use existing components from ",
         packageName,
         " instead of writing custom HTML\n- All components support className prop for additional Tailwind styling\n- Use the variant/size props when available - don't override styles manually\n- Components follow React Aria patterns for accessibility\n- Wrap forms in a <form> tag but use SDS Input, Select, Checkbox etc inside\n">>

\* The script with the target opened for writing before the components are
\* read: the header is on disk when a later call throws.
FlatOutcomeWriteFirst(rootExists, components, built) ==
  IF ~rootExists THEN [threw |-> TRUE, enumerated |-> <<>>, writes |-> <<>>]
  ELSE IF built.threw
  THEN [threw |-> TRUE, enumerated |-> components,
        writes |-> <<FlatTemplate(Len(components), <<>>)>>]
  ELSE [threw |-> FALSE, enumerated |-> components,
        writes |-> <<FlatTemplate(Len(components), <<>>),
                     FlatTemplate(Len(components), built.docs)>>]

FlatScriptWriteFirst(rootExists, tree, order) ==
  LET components == FlatComponents(tree, order)
  IN  FlatOutcomeWriteFirst(rootExists, components,
                            FlatDocsFrom(tree, components, 1))

\* The script from its first statement to its last: whether a call threw,
\* the components array, and the buffers handed to writeFileSync in order.
\* readdirSync throws when the directory does not exist.
FlatOutcome(rootExists, components, built) ==
  IF ~rootExists THEN [threw |-> TRUE, enumerated |-> <<>>, writes |-> <<>>]
  ELSE IF built.threw
  THEN [threw |-> TRUE, enumerated |-> components, writes |-> <<>>]
  ELSE [threw |-> FALSE, enumerated |-> components,
        writes |-> <<FlatTemplate(Len(components), built.docs)>>]

FlatScript(rootExists, tree, order) ==
  LET components == FlatComponents(tree, order)
  IN  FlatOutcome(rootExists, components, FlatDocsFrom(tree, components, 1))

(***************************************************************************)
(* Rule generator, src/scripts/generate-cursorrules.js: the extractors     *)
(***************************************************************************)

\* typeRegex =
\*   /export\s+(type|interface)\s+(\w+)(?:<[^>]*>)?\s*(?:=|extends\s+[^{]*)?/g
\* tried at position i.  Every quantifier is greedy and nothing follows the
\* optional groups, so the match is the longest one.
TypeMatchAt(t, i) ==
  LET a  == SkipIn(t, i + 1, SpacePieces)
      b  == SkipIn(t, a + 1, SpacePieces)
      w  == SkipWord(t, b)
      g  == SkipNotIn(t, w + 1, {">"})
      w2 == IF w <= Len(t) /\ t[w] = "<" /\ g <= Len(t) THEN g + 1 ELSE w
      d  == SkipIn(t, w2, SpacePieces)
      x  == SkipIn(t, d + 1, SpacePieces)
      end == IF d <= Len(t) /\ t[d] = "=" THEN d + 1
             ELSE IF d <= Len(t) /\ t[d] = "extends" /\ x > d + 1
                  THEN SkipNotIn(t, x, {"{"})
                  ELSE d
  IN  IF /\ i <= Len(t) /\ t[i] = "export"
         /\ a > i + 1 /\ a <= Len(t) /\ t[a] \in {"type", "interface"}
         /\ b > a + 1 /\ w > b
      THEN [ok |-> TRUE, kind |-> t[a], name |-> SubSeq(t, b, w - 1),
            next |-> end]
      ELSE [ok |-> FALSE]

\* The loop with the parentheses left out of the depth.
RECURSIVE BalancedEndBraces(_, _, _, _, _)
BalancedEndBraces(source, idx, depth, started, isInterface) ==
  LET i    == SkipNotIn(source, idx, {"{", "}", ";"})
      ch   == source[i]
      d1   == IF ch = "{" THEN depth + 1 ELSE depth
      d2   == IF ch = "}" THEN d1 - 1 ELSE d1
      st   == started \/ ch = "{"
  IN  IF i > Len(source) THEN Len(source)
      ELSE IF d2 = 0 /\ (IF isInterface THEN st ELSE ch = ";")
           THEN i
           ELSE BalancedEndBraces(source, i + 1, d2, st, isInterface)

\* The for loop of extractBalancedBody from index idx on, with the depth and
\* the started flag it has reached: the index of the last piece it appends
\* to result (the piece it breaks on, else the last piece of the source).
\* Only a bracket or a ";" changes the depth or the flag or ends the loop,
\* so the loop is followed from one such piece to the next.
RECURSIVE BalancedEnd(_, _, _, _, _)
BalancedEnd(source, idx, depth, started, isInterface) ==
  LET i    == SkipNotIn(source, idx, {"{", "(", "}", ")", ";"})
      ch   == source[i]
      open == ch \in {"{", "("}
      d1   == IF open THEN depth + 1 ELSE depth
      d2   == IF ch \in {"}", ")"} THEN d1 - 1 ELSE d1
      st   == started \/ open
  IN  IF i > Len(source) THEN Len(source)
      ELSE IF d2 = 0 /\ (IF isInterface THEN st ELSE ch = ";")
           THEN i
           ELSE BalancedEnd(source, i + 1, d2, st, isInterface)

\* extractBalancedBody(source, idx, isInterface); idx is the position of the
\* first piece read, and result is every piece read up to the break.
extractBalancedBody(source, idx, isInterface) ==
  SubSeq(source, idx, BalancedEnd(source, idx, 0, FALSE, isInterface))

\* extractExportedTypes(source), from position `from` on.  A match begins
\* at a piece "export", so the search goes from one such piece to the next.
RECURSIVE ExportedTypesFrom(_, _)
\* The results pushed from the "export" at i on, m being the match tried
\* at i.
ExportedTypesAt(source, i, m) ==
  IF i > Len(source) THEN <<>>
  ELSE IF m.ok
       THEN <<[name |-> m.name, kind |-> m.kind,
               body |-> Trim(extractBalancedBody(source, m.next,
                                                 m.kind = "interface"))]>>
              \o ExportedTypesFrom(source, m.next)
       ELSE ExportedTypesFrom(source, i + 1)

ExportedTypesFrom(source, from) ==
  LET i == SkipNotIn(source, from, {"export"})
  IN  ExportedTypesAt(source, i, TypeMatchAt(source, i))

extractExportedTypes(source) == ExportedTypesFrom(source, 1)

\* /export\s+<keyword>\s+(\w+)\s*<one of closers>/g tried at position i:
\* fnRegex is keyword "function" with closers [<(], constRegex is keyword
\* "const" with closer =.
ExportMatchAt(t, i, keyword, closers) ==
  LET a == SkipIn(t, i + 1, SpacePieces)
      b == SkipIn(t, a + 1, SpacePieces)
      w == SkipWord(t, b)
      c == SkipIn(t, w, SpacePieces)
  IN  IF /\ i <= Len(t) /\ t[i] = "export"
         /\ a > i + 1 /\ a <= Len(t) /\ t[a] = keyword
         /\ b > a + 1 /\ w > b
         /\ c <= Len(t) /\ t[c] \in closers
      THEN [ok |-> TRUE, name |-> SubSeq(t, b, w - 1), next |-> c + 1]
      ELSE [ok |-> FALSE]

\* m[1] of every match of one of the two expressions, in match order.
RECURSIVE ExportNames(_, _, _, _)
\* The names pushed from the "export" at i on, m being the match tried at i.
ExportNamesAt(t, i, m, keyword, closers) ==
  IF i > Len(t) THEN <<>>
  ELSE IF m.ok THEN <<m.name>> \o ExportNames(t, m.next, keyword, closers)
  ELSE ExportNames(t, i + 1, keyword, closers)

ExportNames(t, from, keyword, closers) ==
  LET i == SkipNotIn(t, from, {"export"})
  IN  ExportNamesAt(t, i, ExportMatchAt(t, i, keyword, closers), keyword,
                    closers)

\* [...new Set(names)]: the first occurrence of each name, in order.
RECURSIVE Dedupe(_, _)
Dedupe(names, seen) ==
  IF names = <<>> THEN <<>>
  ELSE IF names[1] \in seen THEN Dedupe(Tail(names), seen)
  ELSE <<names[1]>> \o Dedupe(Tail(names), seen \cup {names[1]})

extractExportedComponents(source) ==
  Dedupe(ExportNames(source, 1, "function", {"<", "("})
           \o ExportNames(source, 1, "const", {"="}),
         {})

\* name.endsWith("Props")
EndsWithProps(name) == name # <<>> /\ name[Len(name)] = "Props"

\* /^[A-Z]/.test(name) && !name.endsWith("Props")
isComponent(name) ==
  name # <<>> /\ name[1] \in UpperPieces /\ ~EndsWithProps(name)

\* The for loop of extractOwnFields from index idx on, entered at `depth`:
\* the pieces it appends to inner.  Only a brace changes the depth, so the
\* loop is followed from one brace to the next, the pieces in between being
\* appended when the depth is 1.
RECURSIVE OwnLoop(_, _, _)
OwnLoop(body, idx, depth) ==
  LET i     == SkipNotIn(body, idx, {"{", "}"})
      plain == IF depth = 1 THEN SubSeq(body, idx, i - 1) ELSE <<>>
      ch    == body[i]
      d1    == IF ch = "{" THEN depth + 1 ELSE depth
      d2    == IF ch = "}" THEN d1 - 1 ELSE d1
  IN  IF i > Len(body) THEN plain
      ELSE IF ch = "{" /\ d1 = 1 THEN plain \o OwnLoop(body, i + 1, d1)
      ELSE IF ch = "}" /\ d2 = 0 THEN plain
      ELSE IF d2 = 1 THEN plain \o <<ch>> \o OwnLoop(body, i + 1, d2)
      ELSE plain \o OwnLoop(body, i + 1, d2)

\* inner.split(/[;\n]/)
RECURSIVE SplitLines(_)
SplitLines(t) ==
  LET k == SkipNotIn(t, 1, {";", "\n"})
  IN  IF k > Len(t) THEN <<t>>
      ELSE <<SubSeq(t, 1, k - 1)>> \o SplitLines(SubSeq(t, k + 1, Len(t)))

\* The filter of extractOwnFields on a trimmed line.
KeepLine(l) ==
  /\ Len(l) > 0
  /\ ~(Len(l) >= 2 /\ l[1] = "/" /\ l[2] = "/")
  /\ ~(Len(l) >= 2 /\ l[1] = "/" /\ l[2] = "*")
  /\ l[1] # "*"

RECURSIVE TrimAndFilter(_)
TrimAndFilter(ls) ==
  IF ls = <<>> THEN <<>>
  ELSE LET l == Trim(ls[1])
       IN  (IF KeepLine(l) THEN <<l>> ELSE <<>>) \o TrimAndFilter(Tail(ls))

extractOwnFields(body) ==
  LET braceStart == SkipNotIn(body, 1, {"{"})
  IN  IF braceStart > Len(body) THEN <<>>
      ELSE TrimAndFilter(SplitLines(OwnLoop(body, braceStart, 0)))

\* summariseProps(types), for the types from index k on.
RECURSIVE SummariseFrom(_, _)
SummariseFrom(types, k) ==
  IF k > Len(types) THEN <<>>
  ELSE (IF EndsWithProps(types[k].name)
        THEN <<[name |-> types[k].name,
                fields |-> extractOwnFields(types[k].body)]>>
        ELSE <<>>) \o SummariseFrom(types, k + 1)

summariseProps(types) == SummariseFrom(types, 1)

(***************************************************************************)
(* Rule generator, src/scripts/generate-cursorrules.js: the script         *)
(*                                                                         *)
(* The document is built as an array of lines joined by "\n".  The fixed   *)
(* lines written in Russian in the script are given here in ASCII, and a   *)
(* backquote of the script's output is written as an apostrophe.           *)
(***************************************************************************)

DS_TITLE == "Simple Design System (SDS)"

\* getComponentDirs(dir), readdirSync listing the entries in 'order'.
getComponentDirs(tree, order) ==
  LET IsDir(n) == tree[n].isDirectory
  IN  Sort(SelectSeq(order, IsDir))

\* getTsxFiles(componentDir), readdirSync listing the files in 'fileOrder'.
getTsxFiles(fileOrder) ==
  LET IsTsx(f) == f[Len(f)] = ".tsx"
  IN  SelectSeq(fileOrder, IsTsx)

\* The allSource loop from file k on: the text, or Threw.
RECURSIVE AllSourceFrom(_, _, _)
AllSourceFrom(files, tsxFiles, k) ==
  IF k > Len(tsxFiles) THEN <<>>
  ELSE LET text == readFileSync(files[tsxFiles[k]])
           rest == AllSourceFrom(files, tsxFiles, k + 1)
       IN  IF text = Threw \/ rest = Threw THEN Threw
           ELSE text \o <<"\n">> \o rest

\* analyseComponent that goes on with no .tsx file at all.
analyseComponentNoGuard(files, dirName, fileOrder) ==
  LET tsxFiles  == getTsxFiles(fileOrder)
      allSource == AllSourceFrom(files, tsxFiles, 1)
      types     == extractExportedTypes(allSource)
  IN  IF allSource = Threw THEN [threw |-> TRUE, null |-> FALSE]
      ELSE [threw |-> FALSE, null |-> FALSE, dirName |-> dirName,
            components |->
              SelectSeq(extractExportedComponents(allSource), isComponent),
            propsSummary |-> summariseProps(types)]

\* analyseComponent(dirName), given the files of the folder.
analyseComponent(files, dirName, fileOrder) ==
  LET tsxFiles  == getTsxFiles(fileOrder)
      allSource == AllSourceFrom(files, tsxFiles, 1)
      types     == extractExportedTypes(allSource)
  IN  IF Len(tsxFiles) = 0 THEN [threw |-> FALSE, null |-> TRUE]
      ELSE IF allSource = Threw THEN [threw |-> TRUE, null |-> FALSE]
      ELSE [threw |-> FALSE, null |-> FALSE, dirName |-> dirName,
            components |->
              SelectSeq(extractExportedComponents(allSource), isComponent),
            propsSummary |-> summariseProps(types)]

\* The examples table of generateExample (the ellipsis character of the
\* Textarea entry is written "...").
examples ==
  [Accordion |->
     "<Accordion>\n  <AccordionItem title=\"Section 1\">Content 1</AccordionItem>\n  <AccordionItem title=\"Section 2\">Content 2</AccordionItem>\n</Accordion>",
   Avatar |->
     "<Avatar src=\"/photo.jpg\" alt=\"User\" size=\"medium\" />\n<AvatarButton initials=\"JD\" alt=\"John Doe\" />\n<AvatarGroup max={3}>\n  <Avatar initials=\"AB\" alt=\"A\" />\n  <Avatar initials=\"CD\" alt=\"C\" />\n</AvatarGroup>",
   Button |->
     "<Button variant=\"primary\" size=\"medium\">Click me</Button>\n<ButtonDanger variant=\"danger-primary\">Delete</ButtonDanger>\n<ButtonGroup align=\"end\">\n  <Button variant=\"subtle\">Cancel</Button>\n  <Button variant=\"primary\">Save</Button>\n</ButtonGroup>",
   Checkbox |->
     "<CheckboxGroup label=\"Options\">\n  <CheckboxField label=\"Option A\" />\n  <CheckboxField label=\"Option B\" />\n</CheckboxGroup>",
   Dialog |->
     "<DialogTrigger>\n  <Button>Open Dialog</Button>\n  <DialogModal isDismissable>\n    <Dialog>\n      <DialogTitle>Title</DialogTitle>\n      <DialogDescription>Description text</DialogDescription>\n      <DialogBody>Body content</DialogBody>\n    </Dialog>\n  </DialogModal>\n</DialogTrigger>",
   Fieldset |->
     "<Form>\n  <Fieldset>\n    <Legend>Personal Information</Legend>\n    <FieldGroup>\n      <InputField label=\"Name\" />\n      <InputField label=\"Email\" type=\"email\" />\n    </FieldGroup>\n  </Fieldset>\n</Form>",
   Icon |->
     "<Icon size=\"24\">\n  {/* SVG path children */}\n</Icon>",
   IconButton |->
     "<IconButton aria-label=\"Settings\" variant=\"subtle\" size=\"small\">\n  <IconSettings />\n</IconButton>",
   Image |->
     "<Image src=\"/photo.jpg\" alt=\"Description\" aspectRatio=\"16-9\" size=\"medium\" />\n<Picture>\n  <PictureSource srcSet=\"/photo.webp\" type=\"image/webp\" />\n  <Image src=\"/photo.jpg\" alt=\"Fallback\" />\n</Picture>",
   Input |->
     "<InputField\n  label=\"Email\"\n  placeholder=\"you@example.com\"\n  description=\"We'll never share your email.\"\n  errorMessage=\"Invalid email\"\n/>",
   Link |->
     "<Link href=\"/about\">About us</Link>",
   ListBox |->
     "<ListBox>\n  <ListBoxItem>Option 1</ListBoxItem>\n  <ListBoxItem>Option 2</ListBoxItem>\n</ListBox>",
   Logo |->
     "<Logo href=\"/\" />",
   Menu |->
     "<MenuButton label=\"Actions\" variant=\"subtle\">\n  <MenuItem>Edit</MenuItem>\n  <MenuSeparator />\n  <MenuItem>Delete</MenuItem>\n</MenuButton>",
   Navigation |->
     "<Navigation direction=\"row\">\n  <NavigationPill isSelected>Dashboard</NavigationPill>\n  <NavigationPill>Settings</NavigationPill>\n</Navigation>",
   Notification |->
     "<Notification variant=\"message\" isDismissible>\n  Your changes have been saved.\n</Notification>",
   Pagination |->
     "<Pagination>\n  <PaginationPrevious href=\"/page/1\" />\n  <PaginationList>\n    <PaginationPage href=\"/page/1\" current>1</PaginationPage>\n    <PaginationPage href=\"/page/2\">2</PaginationPage>\n  </PaginationList>\n  <PaginationNext href=\"/page/2\" />\n</Pagination>",
   Radio |->
     "<RadioGroup label=\"Plan\">\n  <RadioField label=\"Free\" value=\"free\" />\n  <RadioField label=\"Pro\" value=\"pro\" />\n</RadioGroup>",
   Search |->
     "<Search placeholder=\"Search...\" onSearch={(q) => console.log(q)} />",
   Select |->
     "<SelectField label=\"Country\">\n  <SelectItem>United States</SelectItem>\n  <SelectItem>Germany</SelectItem>\n</SelectField>",
   Slider |->
     "<SliderField label=\"Volume\" minValue={0} maxValue={100} showOutput />",
   Switch |->
     "<SwitchGroup>\n  <SwitchField label=\"Dark mode\" />\n  <SwitchField label=\"Notifications\" />\n</SwitchGroup>",
   Tab |->
     "<Tabs>\n  <TabList>\n    <Tab id=\"overview\">Overview</Tab>\n    <Tab id=\"details\">Details</Tab>\n  </TabList>\n  <TabPanel id=\"overview\">Overview content</TabPanel>\n  <TabPanel id=\"details\">Details content</TabPanel>\n</Tabs>",
   Table |->
     "<Table striped>\n  <TableHead>\n    <TableColumn isRowHeader>Name</TableColumn>\n    <TableColumn>Email</TableColumn>\n  </TableHead>\n  <TableBody>\n    <TableRow>\n      <TableCell>Alice</TableCell>\n      <TableCell>alice@example.com</TableCell>\n    </TableRow>\n  </TableBody>\n</Table>",
   Tag |->
     "<Tag scheme=\"brand\" variant=\"primary\">New</Tag>\n<TagButton scheme=\"positive\" href=\"/promo\">Sale</TagButton>\n<TagToggleGroup selectionMode=\"multiple\">\n  <TagToggleList>\n    <TagToggle>React</TagToggle>\n    <TagToggle>Vue</TagToggle>\n  </TagToggleList>\n</TagToggleGroup>",
   Text |->
     "<TextTitleHero>Hero Title</TextTitleHero>\n<TextHeading>Section Heading</TextHeading>\n<Text>Body paragraph text.</Text>\n<TextSmall>Small caption text.</TextSmall>\n<TextPrice currency=\"$\" price=\"9.99\" label=\"/mo\" />",
   Textarea |->
     "<TextareaField\n  label=\"Message\"\n  placeholder=\"Type your message...\"\n  description=\"Max 500 characters\"\n/>",
   Tooltip |->
     "<DialogTrigger>\n  <Button>Hover me</Button>\n  <Tooltip>Helpful information</Tooltip>\n</DialogTrigger>"]

\* generateExample(analysis)
generateExample(a) ==
  IF a.dirName \in DOMAIN examples THEN <<examples[a.dirName]>>
  ELSE LET tag == IF Len(a.components) > 0 THEN a.components[1]
                  ELSE <<a.dirName>>
       IN  <<"<">> \o tag \o <<">{/* ... */}</">> \o tag \o <<">">>

\* ps.fields.map((f) => '  ${f}')
RECURSIVE Indented(_)
Indented(fields) ==
  IF fields = <<>> THEN <<>>
  ELSE <<(<<"  ">> \o fields[1])>> \o Indented(Tail(fields))

\* The lines pushed for the prop types from index k on.
RECURSIVE PropsSummaryLines(_, _)
PropsSummaryLines(propsSummary, k) ==
  IF k > Len(propsSummary) THEN <<>>
  ELSE LET ps == propsSummary[k]
           fieldsStr == IF Len(ps.fields) > 0
                        THEN Join(Indented(ps.fields), "\n")
                        ELSE <<"  (extends base RAC / HTML props)">>
       IN  << (<<"'">> \o ps.name \o <<"'">>), <<"'''ts">>, fieldsStr,
              <<"'''">>, <<>> >>
             \o PropsSummaryLines(propsSummary, k + 1)

\* The Props section pushed although there is no prop type.
PropsSectionAlways(a) ==
  << <<"**Props:**">>, <<>> >> \o PropsSummaryLines(a.propsSummary, 1)

\* The Props section of a component block.
PropsSection(a) ==
  IF Len(a.propsSummary) > 0
  THEN << <<"**Props:**">>, <<>> >> \o PropsSummaryLines(a.propsSummary, 1)
  ELSE <<>>

\* The lines pushed for one analysis by the loop of generateCursorRules.
BlockLines(a) ==
  << <<"### ", a.dirName>>,
     <<>>,
     (<<"**Import:** 'import { ">> \o Join(a.components, ", ")
        \o <<" } from \"primitives\";'">>),
     <<>> >>
    \o PropsSection(a)
    \o << <<"**Primer:**">>, <<>>, <<"'''tsx">>, generateExample(a),
          <<"'''">>, <<>>, <<"---">>, <<>> >>

RECURSIVE BlocksFrom(_, _)
BlocksFrom(analyses, k) ==
  IF k > Len(analyses) THEN <<>>
  ELSE BlockLines(analyses[k]) \o BlocksFrom(analyses, k + 1)

\* The lines pushed before the component list.
HeaderLines ==
  << <<"# ", DS_TITLE>>,
     <<>>,
     <<"> Auto-generated by 'npm run generate:cursorrules'. Do not edit manually.">>,
     <<>>,
     <<"## Pravila ispolzovaniya">>,
     <<>>,
     <<"- **ALWAYS** import components from the alias '\"primitives\"' (defined in 'vite.config.ts' and 'tsconfig.json').">>,
     <<"  Example: 'import { Button, Input } from \"primitives\";'">>,
     <<"- Do **NOT** import directly from 'react-aria-components', '@react-aria/*' or '@react-stately/*' - use the SDS wrappers.">>,
     <<"- Use **TypeScript** to type all components and props.">>,
     <<"- For styles use the **CSS variables** of 'src/theme.css' ('var(--sds-color-*)', 'var(--sds-size-space-*)' etc.).">>,
     <<"- For layout use the components 'Flex', 'Section', 'Grid' of '\"layout\"'.">>,
     <<"- For icons use the components 'Icon*' of '\"icons\"' (e.g. 'import { IconCheck } from \"icons\"').">>,
     <<"- Do not create new UI components needlessly - first check the library below.">>,
     <<"- Study the stories in 'src/stories/' for usage examples.">>,
     <<>>,
     <<"## Dostupnye komponenty">>,
     <<>> >>

\* The lines pushed after the component list.
FooterLines ==
  << <<"## Dopolnitelnye importy">>,
     <<>>,
     <<"| Alias | Path | Description |">>,
     <<"| --- | --- | --- |">>,
     <<"| '\"primitives\"' | 'src/ui/primitives' | All base components |">>,
     <<"| '\"compositions\"' | 'src/ui/compositions' | Composite components (Cards, Forms, Headers, Footers) |">>,
     <<"| '\"layout\"' | 'src/ui/layout' | Flex, Section, Grid |">>,
     <<"| '\"icons\"' | 'src/ui/icons' | SVG icons (IconCheck, IconX, ...) |">>,
     <<"| '\"hooks\"' | 'src/ui/hooks' | useMediaQuery and other UI hooks |">>,
     <<"| '\"images\"' | 'src/ui/images' | Placeholder images |">>,
     <<"| '\"utils\"' | 'src/ui/utils' | Utilities (AnchorOrButton etc.) |">>,
     <<"| '\"data\"' | 'src/data' | Contexts, providers, services, data hooks |">>,
     <<>> >>

\* generateCursorRules(analyses)
generateCursorRules(analyses) ==
  Join(HeaderLines \o BlocksFrom(analyses, 1) \o FooterLines, "\n")

\* dirs.map(analyseComponent).filter(Boolean) from index k on, fileOrders
\* giving the order in which readdirSync lists the files of each folder.
\* Analysis a before the analyses of the later folders.
AnalysesWith(a, rest) ==
  IF a.threw \/ rest.threw THEN [threw |-> TRUE, analyses |-> <<>>]
  ELSE [threw |-> FALSE,
        analyses |-> (IF a.null THEN <<>> ELSE <<a>>) \o rest.analyses]

RECURSIVE AnalysesFrom(_, _, _, _)
AnalysesFrom(tree, dirs, fileOrders, k) ==
  IF k > Len(dirs) THEN [threw |-> FALSE, analyses |-> <<>>]
  ELSE AnalysesWith(analyseComponent(tree[dirs[k]].files, dirs[k],
                                     fileOrders[dirs[k]]),
                    AnalysesFrom(tree, dirs, fileOrders, k + 1))

\* The run section of the script: whether a call threw, the dirs array, and
\* the buffers handed to writeFileSync in order.  readdirSync throws when
\* the directory does not exist.
RulesOutcome(rootExists, dirs, built) ==
  IF ~rootExists THEN [threw |-> TRUE, enumerated |-> <<>>, writes |-> <<>>]
  ELSE IF built.threw
  THEN [threw |-> TRUE, enumerated |-> dirs, writes |-> <<>>]
  ELSE [threw |-> FALSE, enumerated |-> dirs,
        writes |-> <<generateCursorRules(built.analyses)>>]

RulesScript(rootExists, tree, order, fileOrders) ==
  LET dirs == getComponentDirs(tree, order)
  IN  RulesOutcome(rootExists, dirs, AnalysesFrom(tree, dirs, fileOrders, 1))

(***************************************************************************)
(* Component sources the generators are run on                             *)
(***************************************************************************)

\* Bound on the number of fields of a props declaration.
MaxFields == 2

StringType == <<"string">>

UnionType ==
  <<"\"", "primary", "\"", " ", "|", " ", "\"", "secondary", "\"", " ", "|",
    " ", "\"", "danger", "\"">>

ObjectType ==
  <<"{", " ", "x", ":", " ", "number", ";", " ", "y", ":", " ", "number",
    " ", "}">>

\* The fields a props declaration is written with: name, optionality, type.
FieldMenu ==
  {[name |-> <<"label">>,   optional |-> FALSE, type |-> StringType],
   [name |-> <<"label">>,   optional |-> TRUE,  type |-> StringType],
   [name |-> <<"variant">>, optional |-> FALSE, type |-> UnionType],
   [name |-> <<"variant">>, optional |-> TRUE,  type |-> UnionType],
   [name |-> <<"style">>,   optional |-> TRUE,  type |-> ObjectType]}

FieldLists ==
  UNION {[1..n -> FieldMenu] : n \in 0..MaxFields}

\* A field as written in a declaration body: "  name?: type;\n".
FieldText(f) ==
  <<" ", " ">> \o f.name \o (IF f.optional THEN <<"?">> ELSE <<>>)
    \o <<":", " ">> \o f.type \o <<";", "\n">>

RECURSIVE FieldsText(_)
FieldsText(fields) ==
  IF fields = <<>> THEN <<>>
  ELSE FieldText(fields[1]) \o FieldsText(Tail(fields))

\* "export interface N {...}" or "export type N = {...};".
DeclText(kind, name, fields) ==
  <<"export", " ", kind, " ">> \o name
    \o (IF kind = "type" THEN <<" ", "=">> ELSE <<>>)
    \o <<" ", "{", "\n">> \o FieldsText(fields) \o <<"}">>
    \o (IF kind = "type" THEN <<";">> ELSE <<>>) \o <<"\n">>

\* "export function N(props: NProps) { return null }".
FunctionText(name) ==
  <<"export", " ", "function", " ">> \o name
    \o <<"(", "props", ":", " ">> \o name
    \o <<"Props", ")", " ", "{", " ", "return", " ", "null", " ", "}", "\n">>

\* Further declarations of the same file: none, a declaration of another
\* type with a literal-union field, a base props type.
ExtraTexts ==
  {<<>>,
   DeclText("interface", <<"Theme">>,
            << [name |-> <<"tone">>, optional |-> FALSE,
                type |-> <<"'", "light", "'", " ", "|", " ", "'", "dark",
                           "'">>] >>),
   DeclText("interface", <<"Button", "Props", "Base">>,
            << [name |-> <<"id">>, optional |-> FALSE,
                type |-> StringType] >>)}

\* The text of a component file written from a schema.
SourceText(schema) ==
  IF schema.kind = "none" THEN FunctionText(<<"Button">>) \o schema.extra
  ELSE DeclText(schema.kind, <<"Button", "Props">>, schema.fields)
         \o FunctionText(<<"Button">>) \o schema.extra

Schemas ==
  [kind : {"interface", "type"}, fields : FieldLists, extra : ExtraTexts]
    \cup [kind : {"none"}, fields : {<<>>}, extra : ExtraTexts]

(***************************************************************************)
(* One component file documented by each generator                         *)
(***************************************************************************)
VARIABLES
  exSchema,   \* what the component file declares
  exSource,   \* the text of the component file
  exFlat,     \* the doc part_003 renders for it, or NoFile before it ran
  exRules     \* the lines generate-cursorrules.js pushes for it, or NoFile

exVars == <<exSchema, exSource, exFlat, exRules>>

ExInit ==
  /\ exSchema \in Schemas
  /\ exSource = SourceText(exSchema)
  /\ exFlat = NoFile
  /\ exRules = NoFile

\* The componentDocs callback for component Button.
DocumentFlat ==
  /\ exFlat = NoFile
  /\ exFlat' = ComponentDoc("Button", exSource)
  /\ UNCHANGED <<exSchema, exSource, exRules>>

\* analyseComponent("Button") on a folder that holds the file alone, and the
\* body of the loop of generateCursorRules on its result.
DocumentRules ==
  /\ exRules = NoFile
  /\ exRules' = BlockLines(analyseComponent(IndexTsx :> exSource, "Button",
                                            <<IndexTsx>>))
  /\ UNCHANGED <<exSchema, exSource, exFlat>>

\* These variables in the specifications of the other scripts.
ExIdle ==
  /\ exSchema = <<>>
  /\ exSource = <<>>
  /\ exFlat = NoFile
  /\ exRules = NoFile

(***************************************************************************)
(* Index generator, src/unnamed/part_002, and bundler configuration,       *)
(* src/unnamed/part_004                                                    *)
(***************************************************************************)

\* The modules beside the primitives, in the order part_002 tests them.
OtherModules == <<"compositions", "hooks", "icons", "layout", "utils">>

\* The sets of those modules that have an index.ts.
ModuleSets == {{}, {"compositions"}, {"hooks", "utils"}, Range(OtherModules)}

\* components of part_002: the folders with an index.tsx, in listing order.
indexComponents(tree, order) ==
  LET IsComponentDir(n) ==
        tree[n].isDirectory /\ IndexTsx \in DOMAIN tree[n].files
  IN  SelectSeq(order, IsComponentDir)

\* The export lines of the components from index k on.
RECURSIVE ExportLines(_, _)
ExportLines(components, k) ==
  IF k > Len(components) THEN <<>>
  ELSE <<"export * from './ui/primitives/", components[k], "'\n">>
         \o ExportLines(components, k + 1)

\* The export lines of the other modules from index k on; the first is
\* written after an empty line.
RECURSIVE ModuleLines(_, _)
ModuleLines(present, k) ==
  IF k > Len(OtherModules) THEN <<>>
  ELSE (IF OtherModules[k] \in present
        THEN <<(IF k = 1 THEN "\nexport * from './ui/"
                ELSE "export * from './ui/"), OtherModules[k], "'\n">>
        ELSE <<>>) \o ModuleLines(present, k + 1)

IndexContent(components, present) ==
  <<"// Auto-generated - do not edit manually\n\n">>
    \o ExportLines(components, 1) \o ModuleLines(present, 1)

\* part_002: whether it threw and the content it writes to src/index.ts.
IndexScript(rootExists, tree, order, present) ==
  IF ~rootExists THEN [threw |-> TRUE, content |-> NoFile]
  ELSE [threw |-> FALSE,
        content |-> IndexContent(indexComponents(tree, order), present)]

\* The separator join puts between the segments of a path.
PathSeparators == {"/", "\\"}

\* join(primitivesDir, name, 'index.tsx')
joinPath(name, sep) ==
  <<"src", sep, "ui", sep, "primitives", sep, name, sep, "index.tsx">>

\* .replace(/\\/g, '/')
ReplaceBackslashes(path) ==
  [k \in 1..Len(path) |-> IF path[k] = "\\" THEN "/" ELSE path[k]]

\* The components array of part_004 with no filter on existsSync.
entryComponentsAll(tree, order, sep) ==
  LET IsDir(n) == tree[n].isDirectory
      dirs     == SelectSeq(order, IsDir)
  IN  [k \in 1..Len(dirs) |-> ReplaceBackslashes(joinPath(dirs[k], sep))]

\* components of part_004: the paths of the index.tsx files that exist.
entryComponents(tree, order, sep) ==
  LET IsDir(n)  == tree[n].isDirectory
      dirs      == SelectSeq(order, IsDir)
      paths     == [k \in 1..Len(dirs) |->
                      ReplaceBackslashes(joinPath(dirs[k], sep))]
      \* existsSync(f), f[7] being the folder the path leads into
      Exists(f) == IndexTsx \in DOMAIN tree[f[7]].files
  IN  SelectSeq(paths, Exists)

\* part_004: whether it threw and the entry it hands to defineConfig.
ConfigScript(rootExists, tree, order, sep) ==
  IF ~rootExists THEN [threw |-> TRUE, entry |-> NoFile]
  ELSE [threw |-> FALSE,
        entry |-> <<<<"src/index.ts">>>> \o entryComponents(tree, order, sep)]

(***************************************************************************)
(* The rule generators run on a primitives directory                       *)
(***************************************************************************)

\* Bound on the number of generator runs.
MaxRuns == 2

LabelField == [name |-> <<"label">>, optional |-> FALSE, type |-> StringType]

VariantField == [name |-> <<"variant">>, optional |-> TRUE, type |-> UnionType]

\* The text of <name>.tsx or of the index.tsx of a folder with one file.
ComponentText(name) ==
  DeclText("interface", <<name, "Props">>, <<LabelField>>)
    \o FunctionText(<<name>>)

\* The text of a second component file of the folder.
GroupText(name) ==
  DeclText("interface", <<name, "Group", "Props">>, <<VariantField>>)
    \o FunctionText(<<name, "Group">>)

StylesCss == <<"styles", ".css">>

\* The folders a component group may be: empty, index.tsx alone, <name>.tsx
\* alone, both, an index.tsx that cannot be read, index.tsx beside a file of
\* another extension.
Folders(name) ==
  {<<>>,
   IndexTsx :> ComponentText(name),
   NamedTsx(name) :> ComponentText(name),
   NamedTsx(name) :> ComponentText(name) @@ IndexTsx :> GroupText(name),
   IndexTsx :> Unreadable,
   IndexTsx :> ComponentText(name) @@ StylesCss :> <<".a{}">>}

PlainFile == [isDirectory |-> FALSE, files |-> <<>>]

DirNames == {"Alert", "Button"}

\* The primitives directories: any of the folders, with or without a plain
\* file beside them.
Trees ==
  LET Entries(n) == IF n \in DirNames
                    THEN {[isDirectory |-> TRUE, files |-> f] : f \in Folders(n)}
                    ELSE {PlainFile}
      TreesOn(D) == {t \in [D -> UNION {Entries(n) : n \in D}] :
                       \A n \in D : t[n] \in Entries(n)}
  IN  UNION {TreesOn(D) : D \in SUBSET Range(NameOrder)}

\* The orders in which readdirSync may list the files of each folder.
FileOrders(tree) ==
  LET Dirs == {n \in DOMAIN tree : tree[n].isDirectory}
  IN  {fo \in [Dirs -> UNION {Orders(DOMAIN tree[n].files) : n \in Dirs}] :
         \A n \in Dirs : fo[n] \in Orders(DOMAIN tree[n].files)}

VARIABLES
  rootExists,   \* whether src/ui/primitives exists
  tree,         \* its entries
  cursorrules,  \* the content of .cursorrules, or NoFile
  preRules,     \* the content of .cursorrules when the last run began
  lastGen,      \* the script that ran last: "flat", "rules" or "none"
  prevGen,      \* the script that ran before it
  status,       \* how the last run ended: "ok", "threw" or "none"
  prevStatus,   \* how the run before it ended
  lastEnum,     \* the names the last run enumerated (components / dirs)
  lastWrites,   \* the number of writeFileSync calls of the last run
  runs          \* the number of runs so far

treeVars ==
  <<rootExists, tree, cursorrules, preRules, lastGen, prevGen, status,
    prevStatus, lastEnum, lastWrites, runs>>

\* A .cursorrules left by an earlier run on another tree.
StaleRules == <<"# rules of an earlier run\n">>

TreeInit ==
  /\ rootExists = TRUE
  /\ tree \in Trees
  /\ cursorrules \in {NoFile, StaleRules}
  /\ preRules = NoFile
  /\ lastGen = "none"
  /\ prevGen = "none"
  /\ status = "none"
  /\ prevStatus = "none"
  /\ lastEnum = <<>>
  /\ lastWrites = 0
  /\ runs = 0

\* The file after the writes of a run, each write replacing the content.
AfterWrites(content, writes) ==
  IF writes = <<>> THEN content ELSE writes[Len(writes)]

\* The end of a run of script gen whose outcome is r.
Finish(gen, r) ==
  /\ preRules' = cursorrules
  /\ cursorrules' = AfterWrites(cursorrules, r.writes)
  /\ lastGen' = gen
  /\ prevGen' = lastGen
  /\ status' = IF r.threw THEN "threw" ELSE "ok"
  /\ prevStatus' = status
  /\ lastEnum' = r.enumerated
  /\ lastWrites' = Len(r.writes)
  /\ runs' = runs + 1
  /\ UNCHANGED <<rootExists, tree>>

\* One run of part_003, readdirSync listing the entries in some order.
RunFlat ==
  /\ runs < MaxRuns
  /\ \E order \in Orders(DOMAIN tree) :
       \E r \in {FlatScript(rootExists, tree, order)} : Finish("flat", r)

\* One run of generate-cursorrules.js, each readdirSync listing in some order.
RunRules ==
  /\ runs < MaxRuns
  /\ \E order \in Orders(DOMAIN tree) :
       \E fileOrders \in FileOrders(tree) :
         \E r \in {RulesScript(rootExists, tree, order, fileOrders)} :
           Finish("rules", r)

\* The primitives directory is removed or renamed between two runs.
RemoveRoot ==
  /\ rootExists
  /\ runs < MaxRuns
  /\ rootExists' = FALSE
  /\ tree' = <<>>
  /\ UNCHANGED <<cursorrules, preRules, lastGen, prevGen, status, prevStatus,
                 lastEnum, lastWrites, runs>>

\* These variables in the specifications of the other scripts.
TreeIdle ==
  /\ rootExists = TRUE
  /\ tree = <<>>
  /\ cursorrules = NoFile
  /\ preRules = NoFile
  /\ lastGen = "none"
  /\ prevGen = "none"
  /\ status = "none"
  /\ prevStatus = "none"
  /\ lastEnum = <<>>
  /\ lastWrites = 0
  /\ runs = 0

(***************************************************************************)
(* The index generator and the bundler configuration run on the directory  *)
(***************************************************************************)
VARIABLES
  indexTs,      \* the content of src/index.ts, or NoFile
  indexStatus,  \* how the last run of part_002 ended
  entry,        \* the entry of the bundler configuration, or NoFile
  entryStatus   \* how the last evaluation of part_004 ended

pubVars == <<indexTs, indexStatus, entry, entryStatus>>

PubInit ==
  /\ indexTs = NoFile
  /\ indexStatus = "none"
  /\ entry = NoFile
  /\ entryStatus = "none"

\* One run of part_002, readdirSync listing the entries in some order.
GenerateIndex ==
  \E order \in Orders(DOMAIN tree) :
    \E present \in ModuleSets :
      \E r \in {IndexScript(rootExists, tree, order, present)} :
        /\ indexTs' = IF r.threw THEN indexTs ELSE r.content
        /\ indexStatus' = IF r.threw THEN "threw" ELSE "ok"
        /\ UNCHANGED <<entry, entryStatus>>

\* One evaluation of part_004 by the bundler.
LoadConfig ==
  \E order \in Orders(DOMAIN tree) :
    \E sep \in PathSeparators :
      \E r \in {ConfigScript(rootExists, tree, order, sep)} :
        /\ entry' = IF r.threw THEN entry ELSE r.entry
        /\ entryStatus' = IF r.threw THEN "threw" ELSE "ok"
        /\ UNCHANGED <<indexTs, indexStatus>>

(***************************************************************************)
(* The extractors applied to one source text                               *)
(***************************************************************************)

\* Bound on the length of a text of delimiters.
MaxLen == 4

\* Bound on the number of declarations or lines a text is written with.
MaxItems == 3

\* The sequences over S of length 0..n.
SeqsUpTo(S, n) == UNION {[1..k -> S] : k \in 0..n}

\* The pieces extractBalancedBody tells apart, and one it does not.
BodyPieces == {"{", "}", "(", ")", ";", "x"}

\* The exported declarations of a component file, as far as the closer
\* fnRegex and constRegex end on, and a function that is not exported.
ExportMenu ==
  {[keyword |-> "function", name |-> <<"Button">>,          closer |-> "("],
   [keyword |-> "function", name |-> <<"Alert">>,           closer |-> "<"],
   [keyword |-> "function", name |-> <<"useThing">>,        closer |-> "("],
   [keyword |-> "const",    name |-> <<"Alert">>,           closer |-> "="],
   [keyword |-> "const",    name |-> <<"Button">>,          closer |-> "="],
   [keyword |-> "const",    name |-> <<"Button", "Props">>, closer |-> "="],
   [keyword |-> "local",    name |-> <<"Theme">>,           closer |-> "("]}

\* "export function N(" / "export const N =" / "function N(", and the rest
\* of the line.
ExportText(d) ==
  (IF d.keyword = "local" THEN <<"function">> ELSE <<"export", " ", d.keyword>>)
    \o <<" ">> \o d.name
    \o (IF d.closer = "=" THEN <<" ", "=", " ", "null">>
        ELSE <<d.closer, "x", ")", " ", "{", "}">>)
    \o <<"\n">>

RECURSIVE ItemsText(_, _)
ItemsText(items, k) ==
  IF k > Len(items) THEN <<>>
  ELSE (IF items[k].form = "export" THEN ExportText(items[k].decl)
        ELSE items[k].text) \o ItemsText(items, k + 1)

\* The lines of a declaration body: a field, a blank line, comments, a field
\* of a nested object type, and the braces of the body.
LineMenu ==
  {<<"{">>,
   <<"}">>,
   <<" ", "a", ":", " ", "string", ";">>,
   <<"\n">>,
   <<"/", "/", " ", "note", "\n">>,
   <<"/", "*", " ", "note", "\n">>,
   <<"*", " ", "note", "\n">>,
   <<" ", "s", ":", " ", "{", " ", "x", ":", " ", "number", ";", " ", "y",
     ":", " ", "number", " ", "}", ";">>}

LineItems == {[form |-> "line", text |-> l] : l \in LineMenu}

\* The fields of a props declaration in which names are repeated, with
\* another type or another literal union.
RepeatMenu ==
  {[name |-> <<"label">>, optional |-> FALSE, type |-> <<"string">>],
   [name |-> <<"label">>, optional |-> TRUE,  type |-> <<"number">>],
   [name |-> <<"variant">>, optional |-> FALSE,
    type |-> <<"'", "a", "'", " ", "|", " ", "'", "b", "'">>],
   [name |-> <<"variant">>, optional |-> TRUE,
    type |-> <<"'", "c", "'", " ", "|", " ", "'", "d", "'">>]}

FieldItems ==
  {[form |-> "field", field |-> f, text |-> FieldText(f)] : f \in RepeatMenu}

\* A text of delimiters is written piece by piece.
PieceItems == {[form |-> "piece", text |-> <<p>>] : p \in BodyPieces}

ExportItems == {[form |-> "export", decl |-> d] : d \in ExportMenu}

\* The source texts the extractors are applied to: the items a text is
\* written from, and its pieces.
ScanInputs ==
  SeqsUpTo(PieceItems, MaxLen) \cup SeqsUpTo(ExportItems, MaxItems)
    \cup SeqsUpTo(LineItems, MaxItems) \cup SeqsUpTo(FieldItems, MaxItems)

ScanText(input) == ItemsText(input, 1)

VARIABLES
  scInput,   \* what the source text is written from
  scText,    \* the source text
  scCall     \* the extractor applied to it and what it returned

scVars == <<scInput, scText, scCall>>

NoCall == [fn |-> "none"]

ScanInit ==
  /\ scInput \in ScanInputs
  /\ scText = ScanText(scInput)
  /\ scCall = NoCall

\* extractExportedComponents(allSource).filter(isComponent)
ScanComponents ==
  /\ scCall = NoCall
  /\ scCall' = [fn |-> "components",
                result |-> SelectSeq(extractExportedComponents(scText),
                                     isComponent)]
  /\ UNCHANGED <<scInput, scText>>

\* extractBalancedBody(source, idx, isInterface), idx being the position
\* of the first piece read (past the end for idx = source.length).
ScanBody ==
  /\ scCall = NoCall
  /\ \E idx \in 1..(Len(scText) + 1) :
       \E isInterface \in BOOLEAN :
         scCall' = [fn |-> "body", idx |-> idx, isInterface |-> isInterface,
                    result |-> extractBalancedBody(scText, idx, isInterface)]
  /\ UNCHANGED <<scInput, scText>>

\* extractOwnFields(body), the body being the text or the text in braces
\* after an extends clause.
ScanFields ==
  /\ scCall = NoCall
  /\ \E body \in {scText,
                   <<"extends", " ", "Base", " ", "{">> \o scText \o <<"}">>} :
       scCall' = [fn |-> "fields", body |-> body,
                  result |-> extractOwnFields(body)]
  /\ UNCHANGED <<scInput, scText>>

\* The componentDocs callback and filter(Boolean) for a component group
\* Button with some files: findComponentFile and the docs kept.
ScanEntry ==
  /\ scCall = NoCall
  /\ \E files \in Folders("Button") :
       scCall' = [fn |-> "entry", files |-> DOMAIN files,
                  result |-> findComponentFile(files, "Button"),
                  docs |-> FlatDocsFrom(
                             "Button" :> [isDirectory |-> TRUE, files |-> files],
                             <<"Button">>, 1)]
  /\ UNCHANGED <<scInput, scText>>

\* extractProps and the doc of the componentDocs callback for a file that
\* holds the text, or the text as the body of interface ButtonProps.
ScanProps ==
  /\ scCall = NoCall
  /\ \E declared \in BOOLEAN :
       \E content \in {IF declared
                       THEN <<"interface", " ", "Button", "Props", " ", "{",
                              "\n">> \o scText \o <<"}", "\n">>
                       ELSE scText} :
         scCall' = [fn |-> "props", declared |-> declared,
                    result |-> extractProps(content),
                    doc |-> ComponentDoc("Button", content)]
  /\ UNCHANGED <<scInput, scText>>

\* These variables in the specifications of the scripts.
ScanIdle ==
  /\ scInput = <<>>
  /\ scText = <<>>
  /\ scCall = NoCall

(***************************************************************************)
(* Specifications                                                          *)
(***************************************************************************)
vars == <<cssVars, exVars, treeVars, scVars, pubVars>>

\* The aggregator and the bundler on a fixed set of foundational files.
CssNext ==
  \/ BuildCss /\ UNCHANGED <<exVars, treeVars, scVars, pubVars>>
  \/ Bundle /\ UNCHANGED <<exVars, treeVars, scVars, pubVars>>

InitCss == CssInit /\ ExIdle /\ TreeIdle /\ ScanIdle /\ PubInit

SpecCss == InitCss /\ [][CssNext]_vars

\* One component file documented by each generator.
ExNext ==
  \/ DocumentFlat /\ UNCHANGED <<cssVars, treeVars, scVars, pubVars>>
  \/ DocumentRules /\ UNCHANGED <<cssVars, treeVars, scVars, pubVars>>

InitExtract == ExInit /\ CssIdle /\ TreeIdle /\ ScanIdle /\ PubInit

SpecExtract == InitExtract /\ [][ExNext]_vars

\* The rule generators run, in any succession, on a primitives directory.
Next ==
  \/ RunFlat /\ UNCHANGED <<cssVars, exVars, scVars, pubVars>>
  \/ RunRules /\ UNCHANGED <<cssVars, exVars, scVars, pubVars>>
  \/ RemoveRoot /\ UNCHANGED <<cssVars, exVars, scVars, pubVars>>

Init == TreeInit /\ CssIdle /\ ExIdle /\ ScanIdle /\ PubInit

Spec == Init /\ [][Next]_vars

\* The extractors of the scripts, each applied to a source text.
ScanNext ==
  \/ ScanComponents /\ UNCHANGED <<cssVars, exVars, treeVars, pubVars>>
  \/ ScanBody /\ UNCHANGED <<cssVars, exVars, treeVars, pubVars>>
  \/ ScanFields /\ UNCHANGED <<cssVars, exVars, treeVars, pubVars>>
  \/ ScanEntry /\ UNCHANGED <<cssVars, exVars, treeVars, pubVars>>
  \/ ScanProps /\ UNCHANGED <<cssVars, exVars, treeVars, pubVars>>

InitScan == ScanInit /\ CssIdle /\ ExIdle /\ TreeIdle /\ PubInit

SpecScan == InitScan /\ [][ScanNext]_vars

\* The scripts that enumerate src/ui/primitives, run in any succession.
PubNext ==
  \/ GenerateIndex /\ UNCHANGED <<cssVars, exVars, treeVars, scVars>>
  \/ LoadConfig /\ UNCHANGED <<cssVars, exVars, treeVars, scVars>>
  \/ RunFlat /\ UNCHANGED <<cssVars, exVars, scVars, pubVars>>
  \/ RemoveRoot /\ UNCHANGED <<cssVars, exVars, scVars, pubVars>>

InitPublish == TreeInit /\ PubInit /\ CssIdle /\ ExIdle /\ ScanIdle

SpecPublish == InitPublish /\ [][PubNext]_vars

(***************************************************************************)
(* Properties of the stylesheet aggregator                                 *)
(***************************************************************************)

\* The section the combined stylesheet holds for one foundational file.
TaggedSection(tag, content) ==
  IF content = NoFile THEN <<>> ELSE <<tag>> \o content \o <<"\n\n">>

FoundationalSections ==
  TaggedSection("/* reset.css */\n", srcCss["reset.css"])
    \o TaggedSection("/* theme.css */\n", srcCss["theme.css"])
    \o TaggedSection("/* index.css */\n", srcCss["index.css"])
    \o TaggedSection("/* icons.css */\n", srcCss["icons.css"])
    \o TaggedSection("/* responsive.css */\n", srcCss["responsive.css"])

\* C1: after a run of the aggregator, dist/index.css is the present
\* foundational files in the order reset, theme, index, icons, responsive,
\* each after a comment naming it, then, when the bundled stylesheet existed,
\* the "Component styles" comment and the bundled content as it was before
\* the run; every foundational piece precedes every component piece.
C1_StylesheetOrder ==
  cssRuns > 0 =>
    /\ distCss = FoundationalSections
                   \o (IF preDist = NoFile THEN <<>>
                       ELSE <<"/* Component styles */\n">> \o preDist)
    /\ SubSeq(distCss, 1, Len(FoundationalSections)) = FoundationalSections

\* The case of the spec's stylesheet-order property: reset and theme present,
\* bundled content ".btn{}".
C1_Witness ==
  /\ cssRuns = 1
  /\ preDist = <<".btn{}">>
  /\ srcCss = [f \in Range(cssFiles) |->
                 IF f = "reset.css" THEN <<".a{}">>
                 ELSE IF f = "theme.css" THEN <<".b{}", ".a{}">> ELSE NoFile]
  /\ distCss = <<"/* reset.css */\n", ".a{}", "\n\n",
                 "/* theme.css */\n", ".b{}", ".a{}", "\n\n",
                 "/* Component styles */\n", ".btn{}">>

Missing == {f \in Range(cssFiles) : srcCss[f] = NoFile}

RECURSIVE SumLen(_)
SumLen(files) ==
  IF files = {} THEN 0
  ELSE LET f == CHOOSE g \in files : TRUE
       IN  Len(srcCss[f]) + 2 + SumLen(files \ {f})

C3_RerunIdentical ==
  cssRuns >= 2 => distCss = preDist

(***************************************************************************)
(* Properties of the rule generators run on a primitives directory         *)
(***************************************************************************)

\* The headings of the component blocks of a document, in order: in the
\* document of part_003 the line before an "Import: " line, in the document
\* of generate-cursorrules.js the text after "### ".
HeadingsOf(gen, t) ==
  LET idx    == [k \in 1..Len(t) |-> k]
      IsH(k) == IF gen = "flat"
                THEN k + 2 <= Len(t) /\ t[k + 1] = "\n"
                       /\ t[k + 2] = "Import: import { "
                ELSE k > 1 /\ t[k - 1] = "### "
      sel    == SelectSeq(idx, IsH)
  IN  [j \in 1..Len(sel) |-> t[sel[j]]]

IsTsxName(f) == f[Len(f)] = ".tsx"

\* The entry file a script takes a folder to be a component group by: the
\* index.tsx for part_003, any .tsx file for generate-cursorrules.js.
Qualifying(gen, files) ==
  IF gen = "flat" THEN IndexTsx \in DOMAIN files
  ELSE \E f \in DOMAIN files : IsTsxName(f)

FolderNames == {n \in DOMAIN tree : tree[n].isDirectory}

ReadFails ==
  \E n \in FolderNames :
    \E f \in DOMAIN tree[n].files : tree[n].files[f] = Unreadable

\* C4: two runs of the same rule generator on an unchanged tree that both
\* end well write the same bytes, whatever order readdirSync lists the
\* entries in.
C4_RerunIdentical ==
  (runs >= 2 /\ lastGen = prevGen /\ status = "ok" /\ prevStatus = "ok")
    => cursorrules = preRules

\* C5: after a run that ends well, the document holds exactly one block
\* heading for every folder of the primitives directory that has a
\* qualifying entry file, none for any other entry, and the headings are in
\* the order the folders were enumerated.
C5_Completeness ==
  (status = "ok" /\ rootExists) =>
    LET h      == HeadingsOf(lastGen, cursorrules)
        IsQ(n) == Qualifying(lastGen, tree[n].files)
    IN  /\ h = SelectSeq(lastEnum, IsQ)
        /\ \A n \in DOMAIN tree :
             Cardinality({k \in 1..Len(h) : h[k] = n})
               = IF tree[n].isDirectory /\ IsQ(n) THEN 1 ELSE 0

\* part_003 has listed Button before Alert and documented both in that
\* order, beside a plain file.
C5_Witness ==
  /\ status = "ok"
  /\ rootExists
  /\ lastGen = "flat"
  /\ "index.ts" \in DOMAIN tree
  /\ lastEnum = <<"Button", "Alert">>
  /\ HeadingsOf("flat", cursorrules) = <<"Button", "Alert">>

\* The folders that hold no .tsx file at all.
NoEntryFolders ==
  {n \in FolderNames : \A f \in DOMAIN tree[n].files : ~IsTsxName(f)}

\* C6: when a folder has no entry file and nothing else fails, the run ends
\* well and writes the document, which holds no block for that folder and a
\* block for every folder that has a qualifying entry file.
C6_GracefulSkip ==
  (runs > 0 /\ rootExists /\ NoEntryFolders # {} /\ ~ReadFails) =>
    LET h == HeadingsOf(lastGen, cursorrules)
    IN  /\ status = "ok"
        /\ lastWrites = 1
        /\ cursorrules # NoFile
        /\ \A n \in NoEntryFolders : n \notin Range(h)
        /\ \A n \in FolderNames :
             Qualifying(lastGen, tree[n].files) => n \in Range(h)

\* generate-cursorrules.js has run on an empty Alert folder beside a Button
\* folder, and documented Button alone.
C6_Witness ==
  /\ runs > 0
  /\ rootExists
  /\ lastGen = "rules"
  /\ "Alert" \in NoEntryFolders
  /\ tree["Alert"].files = <<>>
  /\ "Button" \in FolderNames
  /\ status = "ok"
  /\ lastEnum = <<"Alert", "Button">>
  /\ HeadingsOf("rules", cursorrules) = <<"Button">>

\* C10: a run writes its target at most once; a run begun without the
\* primitives directory, or on a tree a file of which cannot be read, throws;
\* a run that throws has written nothing and leaves .cursorrules as it was;
\* a run that ends well has written once, the buffer it built.
C10_NoPartialOutput ==
  [][runs' = runs + 1 =>
       /\ lastWrites' <= 1
       /\ (~rootExists \/ ReadFails) => status' = "threw"
       /\ status' = "threw" => (lastWrites' = 0 /\ cursorrules' = cursorrules)
       /\ status' = "ok" => (lastWrites' = 1 /\ cursorrules' # NoFile)]_vars

\* part_003 has listed Alert before Button, read the index.tsx of Alert and
\* thrown on that of Button, and the .cursorrules of an earlier run is in
\* place.
C10_Witness ==
  /\ runs = 1
  /\ rootExists
  /\ lastGen = "flat"
  /\ lastEnum = <<"Alert", "Button">>
  /\ tree["Alert"].files = IndexTsx :> ComponentText("Alert")
  /\ tree["Button"].files = IndexTsx :> Unreadable
  /\ status = "threw"
  /\ lastWrites = 0
  /\ preRules = StaleRules
  /\ cursorrules = StaleRules

(***************************************************************************)
(* Properties of the documentation of one component file                   *)
(***************************************************************************)

\* The bytes of a text.
RECURSIVE Str(_)
Str(t) ==
  IF t = <<>> THEN ""
  ELSE IF Len(t) = 1 THEN t[1]
  ELSE LET h == Len(t) \div 2
       IN  Str(SubSeq(t, 1, h)) \o Str(SubSeq(t, h + 1, Len(t)))

\* The lines under the "Props:" header of a doc of part_003, and those under
\* its "Variants:" header (<<>> without the header).
FlatPropsSection(doc) ==
  LET p == SkipNotIn(doc, 1, {"Props:\n"})
      v == SkipNotIn(doc, 1, {"Variants:\n"})
  IN  IF p > Len(doc) THEN <<>> ELSE SubSeq(doc, p + 1, v - 1)

FlatVariantsSection(doc) ==
  LET v == SkipNotIn(doc, 1, {"Variants:\n"})
  IN  IF v > Len(doc) THEN <<>> ELSE SubSeq(doc, v + 1, Len(doc))

\* The names the lines of a section begin with, after "  - ".
SectionNames(section) ==
  {SubSeq(section, k + 1, SkipNotIn(section, k + 1, {"?", ": "}) - 1) :
     k \in {j \in 1..Len(section) : section[j] = "  - "}}

\* The Props line the specification gives a declared field.
DeclaredLine(f) ==
  <<"  - ">> \o f.name \o (IF f.optional THEN <<"?">> ELSE <<>>)
    \o <<": ">> \o f.type
    \o <<" (", IF f.optional THEN "optional" ELSE "required", ")\n">>

RECURSIVE DeclaredLines(_)
DeclaredLines(fields) ==
  IF fields = <<>> THEN <<>>
  ELSE DeclaredLine(fields[1]) \o DeclaredLines(Tail(fields))

\* C7: for a file that declares ButtonProps, as an interface or as a type
\* alias, and nothing else beside the component, the Props section of the
\* doc of part_003 is one line per declared field, in declaration order,
\* with the name, the "?" and optional/required tag, and the declared type
\* byte for byte.
C7_FieldFidelity ==
  (exFlat # NoFile /\ exSchema.kind # "none" /\ exSchema.extra = <<>>) =>
    Str(FlatPropsSection(exFlat)) = Str(DeclaredLines(exSchema.fields))

UnionFields ==
  {k \in 1..Len(exSchema.fields) : exSchema.fields[k].type = UnionType}

\* The Variants line the specification gives a field of type UnionType.
DeclaredVariantLine(f) ==
  <<"  - ">> \o f.name \o <<": \"primary\" | \"secondary\" | \"danger\"\n">>

\* The lines of a section: the pieces from each "  - " to the next.
SectionLines(section) ==
  {SubSeq(section, k, SkipNotIn(section, k + 1, {"  - "}) - 1) :
     k \in {j \in 1..Len(section) : section[j] = "  - "}}

\* C8: in the doc of part_003, every declared field whose type is a union of
\* quoted literals has the Variants line that lists its alternatives quoted
\* and in order, and every Variants line names a field that the Props
\* section of the same doc lists.
C8_VariantExtraction ==
  exFlat # NoFile =>
    /\ exSchema.kind # "none" =>
         \A k \in UnionFields :
           Str(DeclaredVariantLine(exSchema.fields[k]))
             \in {Str(l) : l \in SectionLines(FlatVariantsSection(exFlat))}
    /\ SectionNames(FlatVariantsSection(exFlat))
         \subseteq SectionNames(FlatPropsSection(exFlat))

HasPropsHeader(lines) == <<"**Props:**">> \in Range(lines)

\* Every header of the doc of part_003 has an entry under it.
FlatHeadersFilled ==
  \A k \in 1..Len(exFlat) :
    exFlat[k] \in {"Props:\n", "Variants:\n"} =>
      (k < Len(exFlat) /\ exFlat[k + 1] = "  - ")

\* The doc of part_003 that is a heading and an import line.
FlatBareDoc ==
  <<"Button", "\n", "Import: import { ", "Button", " } from '",
    "@kzatsepin-xla/components", "/ui/primitives/", "Button", "'\n">>

\* The lines of a block of generate-cursorrules.js between "'''ts" and the
\* "'''" that closes it: the field lines of the prop types.
RulesFieldLines(lines) ==
  {lines[j + 1] : j \in {k \in 1..(Len(lines) - 1) : lines[k] = <<"'''ts">>}}

\* C9 as the specification states it: with no field and no variant
\* extracted the block is the heading and the import example alone, and no
\* Props or Variants header is rendered without an entry, in either
\* generator (in generate-cursorrules.js an entry is a field of the type).
C9_EmptySuppressed ==
  /\ exFlat # NoFile =>
       /\ FlatHeadersFilled
       /\ (extractProps(exSource).props = <<>>
             /\ extractProps(exSource).variants = <<>>) => exFlat = FlatBareDoc
  /\ exRules # NoFile =>
       (HasPropsHeader(exRules) =>
          (exSchema.fields # <<>>
             /\ <<"  (extends base RAC / HTML props)">>
                  \notin RulesFieldLines(exRules)))

\* C9, amended: part_003 renders the heading and the import line alone when
\* it extracts no prop and no variant, and never a header without an entry;
\* generate-cursorrules.js renders its Props section exactly when the file
\* exports a type or interface whose name ends in Props, lists under it
\* either field lines or, for a type with no field of its own, the line
\* "(extends base RAC / HTML props)", and always renders the usage example.
C9_SuppressionAmended ==
  /\ exFlat # NoFile =>
       /\ FlatHeadersFilled
       /\ (extractProps(exSource).props = <<>>
             /\ extractProps(exSource).variants = <<>>) => exFlat = FlatBareDoc
  /\ exRules # NoFile =>
       /\ HasPropsHeader(exRules) <=> exSchema.kind # "none"
       /\ <<>> \notin RulesFieldLines(exRules)
       /\ (exSchema.kind # "none" /\ exSchema.fields = <<>>) =>
            RulesFieldLines(exRules) = {<<"  (extends base RAC / HTML props)">>}
       /\ <<"'''tsx">> \in Range(exRules)

\* Both generators have documented a file that declares an interface
\* ButtonProps with no field: part_003 renders no header, and
\* generate-cursorrules.js the Props header with the placeholder line.
C9_Witness ==
  /\ exSchema.kind = "interface"
  /\ exSchema.fields = <<>>
  /\ exSchema.extra = <<>>
  /\ exFlat = FlatBareDoc
  /\ exRules # NoFile
  /\ HasPropsHeader(exRules)
  /\ <<"  (extends base RAC / HTML props)">> \in Range(exRules)

(***************************************************************************)
(* Properties of the extractors applied to one source text                 *)
(***************************************************************************)

\* The items of the text that are exported declarations, and their names.
ExportedAt ==
  {k \in 1..Len(scInput) :
     scInput[k].form = "export" /\ scInput[k].decl.keyword # "local"}

DeclaredName(k) == scInput[k].decl.name

\* The first declaration of a name in the text.
FirstDeclared(name) ==
  CHOOSE k \in ExportedAt :
    DeclaredName(k) = name
      /\ \A j \in ExportedAt : DeclaredName(j) = name => k <= j

\* C11: the components extracted from a text are the names its exported
\* function and const declarations introduce that begin with an upper-case
\* letter and do not end in Props, each once, in the order of their first
\* declaration in the text.
C11_ExportedComponents ==
  scCall.fn = "components" =>
    LET r == scCall.result
    IN  /\ Range(r) = {DeclaredName(k) : k \in
                         {j \in ExportedAt :
                            /\ DeclaredName(j)[1] \in UpperPieces
                            /\ DeclaredName(j)[Len(DeclaredName(j))] # "Props"}}
        /\ \A i, j \in 1..Len(r) : r[i] = r[j] => i = j
        /\ \A i, j \in 1..Len(r) :
             i < j => FirstDeclared(r[i]) < FirstDeclared(r[j])

(***************************************************************************)
(* Further properties of the rule generators run on a primitives directory *)
(***************************************************************************)

\* The count the heading of the document of part_003 states: the piece after
\* "Available Components (".
StatedCount(t) ==
  t[SkipNotIn(t, 1, {"/styles.css'\n\nAvailable Components ("}) + 1]

\* C12: in every document part_003 writes, the count of the heading
\* "Available Components (N primitives)" is the number of component blocks
\* under it.
C12_CountHeading ==
  (status = "ok" /\ lastGen = "flat") =>
    StatedCount(cursorrules) = ToString(Len(HeadingsOf("flat", cursorrules)))

\* part_003 has run on a directory with an Alert folder without index.tsx,
\* a Button folder with one and a plain file, and written a document that
\* states one primitive.
C12_Witness ==
  /\ status = "ok"
  /\ lastGen = "flat"
  /\ "index.ts" \in DOMAIN tree
  /\ "Alert" \in DOMAIN tree
  /\ tree["Alert"].files = NamedTsx("Alert") :> ComponentText("Alert")
  /\ HeadingsOf("flat", cursorrules) = <<"Button">>
  /\ StatedCount(cursorrules) = "1"

\* The lowest number of a set of numbers.
Least(S) == CHOOSE x \in S : \A y \in S : x <= y

\* The brace and parenthesis depth after the pieces idx..j of the text, and
\* whether it was raised among them.
DepthAfter(idx, j) ==
  Cardinality({k \in idx..j : scText[k] \in {"{", "("}})
    - Cardinality({k \in idx..j : scText[k] \in {"}", ")"}})

RaisedBy(idx, j) == \E k \in idx..j : scText[k] \in {"{", "("}

\* C13: extractBalancedBody returns, for every text and start index, the
\* pieces from the start index up to and including the first piece after
\* which the depth is zero and was raised (interface) or the first ";" read
\* at depth zero (type alias), and up to the end of the text when there is
\* no such piece.
C13_BalancedBody ==
  scCall.fn = "body" =>
    LET idx  == scCall.idx
        ends == {j \in idx..Len(scText) :
                   /\ DepthAfter(idx, j) = 0
                   /\ IF scCall.isInterface THEN RaisedBy(idx, j)
                      ELSE scText[j] = ";"}
    IN  scCall.result
          = SubSeq(scText, idx, IF ends = {} THEN Len(scText) ELSE Least(ends))

\* The body of a type alias was taken from the start of "{;};": it goes past
\* the ";" inside the braces and ends at the one after them.
C13_Witness ==
  /\ scText = <<"{", ";", "}", ";">>
  /\ scCall = [fn |-> "body", idx |-> 1, isInterface |-> FALSE,
               result |-> <<"{", ";", "}", ";">>]

\* The brace depth before piece k of a body whose first "{" is at start.
BraceDepthBefore(body, start, k) ==
  Cardinality({j \in start..(k - 1) : body[j] = "{"})
    - Cardinality({j \in start..(k - 1) : body[j] = "}"})

\* The immediate contents of the first top-level block of a body: the
\* pieces at depth 1 before the block closes, the braces of nested blocks
\* left out.
ImmediateContents(body) ==
  LET start  == Least({k \in 1..Len(body) : body[k] = "{"})
      closes == {k \in (start + 1)..Len(body) :
                   body[k] = "}" /\ BraceDepthBefore(body, start, k) = 1}
      last   == IF closes = {} THEN Len(body) ELSE Least(closes) - 1
      IsOwn(k) == /\ k > start /\ k <= last
                  /\ body[k] \notin {"{", "}"}
                  /\ BraceDepthBefore(body, start, k) = 1
  IN  [j \in 1..Cardinality({k \in 1..Len(body) : IsOwn(k)}) |->
         body[CHOOSE k \in 1..Len(body) :
                IsOwn(k)
                  /\ Cardinality({i \in 1..k : IsOwn(i)}) = j]]

\* C14: extractOwnFields returns the immediate contents of the first
\* top-level block of the body, split on ";" and newlines, trimmed, without
\* the blank lines and the lines that begin with a comment marker; no
\* returned line holds a brace; a body without "{" gives no line.
C14_OwnFields ==
  scCall.fn = "fields" =>
    /\ \A k \in 1..Len(scCall.result) :
         /\ "{" \notin Range(scCall.result[k])
         /\ "}" \notin Range(scCall.result[k])
    /\ scCall.result
         = IF "{" \in Range(scCall.body)
           THEN TrimAndFilter(SplitLines(ImmediateContents(scCall.body)))
           ELSE <<>>

(***************************************************************************)
(* Further properties of the documentation of one component file           *)
(***************************************************************************)

\* The fields of the declarations of ExtraTexts: tone of interface Theme and
\* id of interface ButtonPropsBase, neither name ending in Props.
ForeignFields == {"tone", "id"}

\* C15: a declaration whose name does not end in Props, whether it holds
\* Props before further characters or not at all, gives no Props line, in
\* the doc of part_003 or in the block of generate-cursorrules.js.
C15_PropsSuffix ==
  /\ exFlat # NoFile =>
       \A n \in SectionNames(FlatPropsSection(exFlat)) :
         Range(n) \cap ForeignFields = {}
  /\ exRules # NoFile =>
       /\ <<"'", "Button", "Props", "Base", "'">> \notin Range(exRules)
       /\ <<"'", "Theme", "'">> \notin Range(exRules)
       /\ \A l \in RulesFieldLines(exRules) : Range(l) \cap ForeignFields = {}

(***************************************************************************)
(* Properties of the entry file and of repeated field names                *)
(***************************************************************************)

\* C16: for a group Button, findComponentFile returns Button.tsx whenever
\* the folder holds it, index.tsx when the folder holds index.tsx and not
\* Button.tsx, and null when it holds neither; with null nothing is thrown
\* and no doc is kept for the group.
C16_EntryResolution ==
  scCall.fn = "entry" =>
    /\ <<"Button", ".tsx">> \in scCall.files
         => scCall.result = <<"Button", ".tsx">>
    /\ (<<"Button", ".tsx">> \notin scCall.files
          /\ <<"index", ".tsx">> \in scCall.files)
         => scCall.result = <<"index", ".tsx">>
    /\ (<<"Button", ".tsx">> \notin scCall.files
          /\ <<"index", ".tsx">> \notin scCall.files)
         => (scCall.result = <<>> /\ scCall.docs = [threw |-> FALSE,
                                                    docs |-> <<>>])

\* The callback has run on a folder that holds Button.tsx and index.tsx,
\* taken Button.tsx and kept the doc built from it.
C16_Witness ==
  /\ scCall.fn = "entry"
  /\ scCall.files = {<<"Button", ".tsx">>, <<"index", ".tsx">>}
  /\ scCall.result = <<"Button", ".tsx">>
  /\ scCall.docs = [threw |-> FALSE,
                    docs |-> <<ComponentDoc("Button", ComponentText("Button"))>>]

\* The fields the text is written from, when it is written from fields.
WrittenFields == [k \in 1..Len(scInput) |-> scInput[k].field]

\* The fields that are the last of their name.
LastOfName ==
  {k \in 1..Len(scInput) :
     \A j \in (k + 1)..Len(scInput) :
       WrittenFields[j].name # WrittenFields[k].name}

\* The Variants line of a field of RepeatMenu whose type is a literal union.
RepeatVariantLine(f) ==
  <<"  - ">> \o f.name
    \o (IF f.optional THEN <<": \"c\" | \"d\"\n">>
        ELSE <<": \"a\" | \"b\"\n">>)

\* The number of lines of a section.
LineCount(section) ==
  Cardinality({j \in 1..Len(section) : section[j] = "  - "})

\* An interface ButtonProps written from fields has been documented.
FieldsDocumented ==
  /\ scCall.fn = "props"
  /\ scCall.declared
  /\ scInput # <<>>
  /\ \A k \in 1..Len(scInput) : scInput[k].form = "field"

\* C17 as the specification states it: for an interface ButtonProps written
\* from fields with repeated names, the extracted props are the fields in
\* declaration order, none dropped; the Props section renders, of the
\* fields of one name, the last alone; the Variants section has one line
\* for a name, with the alternatives of the last literal union of that name.
C17_RepeatedNames ==
  FieldsDocumented =>
    /\ scCall.result.props = WrittenFields
    /\ {Str(l) : l \in SectionLines(FlatPropsSection(scCall.doc))}
         = {Str(DeclaredLine(WrittenFields[k])) : k \in LastOfName}
    /\ LineCount(FlatPropsSection(scCall.doc)) = Cardinality(LastOfName)
    /\ {Str(l) : l \in SectionLines(FlatVariantsSection(scCall.doc))}
         = {Str(RepeatVariantLine(WrittenFields[k])) :
              k \in {j \in LastOfName :
                       WrittenFields[j].name = <<"variant">>}}
    /\ LineCount(FlatVariantsSection(scCall.doc))
         = Cardinality({j \in LastOfName :
                          WrittenFields[j].name = <<"variant">>})

\* C17, amended: the extracted props are the fields in declaration order,
\* none dropped, and the Props section renders every one of them, a
\* repeated name as often as it is declared; the Variants section has one
\* line for a name, with the alternatives of the last literal union of that
\* name.
C17_RepeatedNamesAmended ==
  FieldsDocumented =>
    /\ scCall.result.props = WrittenFields
    /\ Str(FlatPropsSection(scCall.doc)) = Str(DeclaredLines(WrittenFields))
    /\ LineCount(FlatPropsSection(scCall.doc)) = Len(scInput)
    /\ {Str(l) : l \in SectionLines(FlatVariantsSection(scCall.doc))}
         = {Str(RepeatVariantLine(WrittenFields[k])) :
              k \in {j \in LastOfName :
                       WrittenFields[j].name = <<"variant">>}}
    /\ LineCount(FlatVariantsSection(scCall.doc))
         = Cardinality({j \in LastOfName :
                          WrittenFields[j].name = <<"variant">>})

\* An interface that declares variant twice, with another union the second
\* time, and label after them has been documented: three Props lines and
\* one Variants line, that of the second union.
C17_Witness ==
  /\ FieldsDocumented
  /\ Len(scInput) = 3
  /\ WrittenFields[1].name = <<"variant">> /\ ~WrittenFields[1].optional
  /\ WrittenFields[2].name = <<"variant">> /\ WrittenFields[2].optional
  /\ WrittenFields[3].name = <<"label">>
  /\ LineCount(FlatPropsSection(scCall.doc)) = 3
  /\ Str(FlatVariantsSection(scCall.doc)) = "  - variant: \"c\" | \"d\"\n"

(***************************************************************************)
(* Properties of the scripts that enumerate src/ui/primitives              *)
(***************************************************************************)

\* The primitives src/index.ts re-exports, in order.
ExportedNames ==
  LET at == [k \in 1..Len(indexTs) |-> k]
      IsName(k) == k > 1 /\ indexTs[k - 1] = "export * from './ui/primitives/"
      sel == SelectSeq(at, IsName)
  IN  [j \in 1..Len(sel) |-> indexTs[sel[j]]]

\* The primitives whose entry points are handed to the bundler, in order.
BundledNames == [k \in 1..(Len(entry) - 1) |-> entry[k + 1][7]]

\* The folders of src/ui/primitives that hold an index.tsx.
IndexedFolders == {n \in FolderNames : IndexTsx \in DOMAIN tree[n].files}

\* C18: once part_002, part_004 and part_003 have each run well on the
\* directory, the primitives src/index.ts re-exports, those whose index.tsx
\* is an entry of the bundler and those .cursorrules documents are the
\* folders that hold an index.tsx, each once, and every entry is the path
\* of the index.tsx written with "/".
C18_SameComponents ==
  (rootExists /\ indexStatus = "ok" /\ entryStatus = "ok"
     /\ status = "ok" /\ lastGen = "flat") =>
    /\ \A names \in {ExportedNames, BundledNames,
                      HeadingsOf("flat", cursorrules)} :
         /\ Range(names) = IndexedFolders
         /\ Len(names) = Cardinality(IndexedFolders)
    /\ entry[1] = <<"src/index.ts">>
    /\ \A k \in 2..Len(entry) :
         Str(entry[k]) = "src/ui/primitives/" \o entry[k][7] \o "/index.tsx"

\* The three scripts have run on a directory with an Alert and a Button
\* folder that hold an index.tsx and a plain file, part_002 listing Alert
\* first and part_004 Button first.
C18_Witness ==
  /\ rootExists /\ indexStatus = "ok" /\ entryStatus = "ok"
  /\ status = "ok" /\ lastGen = "flat"
  /\ "index.ts" \in DOMAIN tree
  /\ ExportedNames = <<"Alert", "Button">>
  /\ BundledNames = <<"Button", "Alert">>
  /\ Range(HeadingsOf("flat", cursorrules)) = {"Alert", "Button"}

====
